---- MODULE Spec2Model ----
(***************************************************************************)
(* Frame-compositing and timing core of edu_video_pipeline:                *)
(*   animation_generator/animation_engine.py   (AnimationEngine)           *)
(*   animation_generator/transition_effects.py (TransitionEffects)         *)
(*   animation_generator/animation_styles.py   (ANIMATION_PRESETS)         *)
(*   video_assembler/compositor.py             (VideoCompositor)           *)
(*                                                                         *)
(* Durations are Python floats in the source.  Here a duration is an       *)
(* integer number of tenths of a second, so duration * fps is the exact    *)
(* rational (duration * fps) / 10; the input sets below hold only values   *)
(* on which the float product and the exact product round the same way.    *)
(***************************************************************************)
EXTENDS Integers, Sequences, FiniteSets, TLC

VARIABLES
    pc,                  \* position of the pipeline driver (main.py steps 6, 7)
    config,              \* the configuration dictionary handed to the components
    n_sections,          \* len(content_structure["sections"])
    audio_segments,      \* audio_segments dict: "sections" and "transitions" lists
    sync_audio,          \* the audio_segments argument of sync_audio_with_visuals
    animation_data,      \* result of AnimationEngine.create_animations
    composition,         \* result of VideoCompositor.sync_audio_with_visuals
    log,                 \* records written to the "edu_video_pipeline" logger
    disk,                \* the image files on disk: path -> size of the decoded image
    engine,              \* AnimationEngine: the PIL images alive (heap) and the
                         \* _loaded_cache and _fitted_cache dictionaries
    history,             \* the _get_fitted_canvas calls made and what their caller
                         \* did to the canvases returned, in order
    fit_args,            \* arguments (img.size, target_size) of _resize_image_to_fit
    fit_result,          \* what _resize_image_to_fit returned or raised
    eff_args,            \* the engine's config and the frame (frame_idx of
                         \* frame_count) handed to _apply_animation_effects
    eff_result,          \* the image _apply_animation_effects returned
    sec_args,            \* one section handed to the section loop of
                         \* create_animations, and the frames whose effects fail
    animation_preset,    \* AnimationEngine.animation_preset
    frame_files,         \* the frame files written to the section's frames_dir
    section_animation,   \* the record _create_section_animation returned
    trans_args,          \* the arguments of a transition synthesis call
    trans_result,        \* the operation called, and the frames and record it made
    enc_args,            \* the composition handed to encode_video, the files on
                         \* disk and the step of the media backend that fails
    enc_result,          \* what encode_video returned or raised, the clips it
                         \* created, the output file and the log
    drv_args,            \* what main() finds: the API keys, the input file, the
                         \* output option and whether the output path is writable
    drv_pc,              \* position of main(): start, running, returned
    drv_output,          \* args.output once main() has settled it
    drv_ran,             \* the steps of main() entered so far and how each ended
    exit_code,           \* what main() returned
    preset_catalog,      \* animation_styles.ANIMATION_PRESETS: the dictionary of
                         \* each style, its "color_scheme" the id of a dictionary
    scheme_heap,         \* the color_scheme dictionaries alive, by id
    handed               \* the preset dictionaries handed to callers, in order

pipeline_vars == <<pc, config, n_sections, audio_segments, sync_audio,
                   animation_data, composition, log>>

fitter_vars == <<disk, engine, history>>

fit_vars == <<fit_args, fit_result>>

effect_vars == <<eff_args, eff_result>>

section_vars == <<sec_args, animation_preset, frame_files, section_animation>>

transition_vars == <<trans_args, trans_result>>

encoder_vars == <<enc_args, enc_result>>

driver_vars == <<drv_args, drv_pc, drv_output, drv_ran, exit_code>>

catalog_vars == <<preset_catalog, scheme_heap, handed>>

vars == <<pipeline_vars, fitter_vars, fit_vars, effect_vars, section_vars,
          transition_vars, encoder_vars, driver_vars, catalog_vars>>

----------------------------------------------------------------------------
(* Bounds and input sets *)

MaxSections == 3

\* largest width or height of an image or target handed to _resize_image_to_fit
MaxDim == 6

\* number of _get_fitted_canvas calls made on one engine
MaxCalls == 3

\* number of preset dictionaries handed to callers
MaxPresets == 3

\* sections of a composition handed to the encoder
MaxComposed == 2

\* largest frame_count of a section whose frames are given effects
MaxFrames == 21

\* the image files on disk and the target sizes asked for; <<0, 2>> and
\* <<2, -1>> are not valid targets
Paths == {"a.png", "b.png"}

FitterSrcSizes == {<<4, 2>>, <<1, 3>>}

FitterTargets == {<<2, 2>>, <<3, 2>>, <<0, 2>>, <<2, -1>>}

\* narration durations, in tenths of a second (-1.0 s, 0 s, 2.5 s, 10 s)
DurSet == {-10, 0, 25, 100}

\* duration of a transition's narration record, in tenths of a second (2.0 s)
TransAudioDurSet == {20}

\* inputs of the callers' specification: the narration a section was animated
\* with (0.5 s), the narration handed to the compositor (0.3 s, 0.7 s) and the
\* transition narration handed to it (0.5 s, 2.0 s)
CallerAnimDurSet == {5}

CallerSyncDurSet == {3, 7}

CallerTransDurSet == {5, 20}

CallerStyles == {"standard", "minimal", "dynamic"}

FpsSet == {1, 24, 30}

None == [none |-> TRUE]

----------------------------------------------------------------------------
(* Arithmetic of the source *)

Max(a, b) == IF a >= b THEN a ELSE b

Min(a, b) == IF a <= b THEN a ELSE b

\* Python round() of the rational num/den (den > 0): nearest integer, ties to even
PyRound(num, den) ==
    LET q == num \div den
        r == num % den
    IN  IF 2 * r > den THEN q + 1
        ELSE IF 2 * r < den THEN q
        ELSE IF q % 2 = 0 THEN q ELSE q + 1

\* Python int() of the rational num/den (den > 0): truncation toward zero
PyInt(num, den) ==
    IF num >= 0 THEN num \div den ELSE -((-num) \div den)

\* range(n) as a sequence: <<0, 1, ..., n-1>>, empty when n <= 0
Range(n) == [i \in 1..n |-> i - 1]

RECURSIVE SumDuration(_)
SumDuration(s) ==
    IF s = <<>> THEN 0 ELSE Head(s).duration + SumDuration(Tail(s))

RECURSIVE SumFrameCount(_)
SumFrameCount(s) ==
    IF s = <<>> THEN 0 ELSE Head(s).frame_count + SumFrameCount(Tail(s))

----------------------------------------------------------------------------
(* animation_styles.py *)

StyleNames == {"standard", "minimal", "dynamic", "professional", "academic", "energetic"}

\* ANIMATION_PRESETS; transition_duration in tenths of a second
ANIMATION_PRESETS ==
    [s \in StyleNames |->
        CASE s = "standard"     -> [complexity |-> "medium", transition_type |-> "fade",
                                    transition_duration |-> 10]
          [] s = "minimal"      -> [complexity |-> "low", transition_type |-> "fade",
                                    transition_duration |-> 8]
          [] s = "dynamic"      -> [complexity |-> "high", transition_type |-> "slide",
                                    transition_duration |-> 12]
          [] s = "professional" -> [complexity |-> "medium", transition_type |-> "fade",
                                    transition_duration |-> 9]
          [] s = "academic"     -> [complexity |-> "low", transition_type |-> "fade",
                                    transition_duration |-> 7]
          [] s = "energetic"    -> [complexity |-> "high", transition_type |-> "slide",
                                    transition_duration |-> 15]]

\* mutant: an unknown name falls back to the first preset that is not "standard"
get_animation_preset_Minimal(style_name) ==
    IF style_name \in StyleNames
    THEN ANIMATION_PRESETS[style_name]
    ELSE ANIMATION_PRESETS["minimal"]

get_animation_preset(style_name) ==
    IF style_name \in StyleNames
    THEN ANIMATION_PRESETS[style_name]
    ELSE ANIMATION_PRESETS["standard"]

get_animation_preset_log(style_name) ==
    IF style_name \in StyleNames
    THEN {[level |-> "info", what |-> "preset", idx |-> 0]}
    ELSE {[level |-> "warning", what |-> "unknown_style", idx |-> 0]}

\* the "color_scheme" dictionaries of ANIMATION_PRESETS
COLOR_SCHEMES ==
    [s \in StyleNames |->
        CASE s = "standard"     -> [background |-> <<255, 255, 255>>, text |-> <<0, 0, 0>>,
                                    accent |-> <<41, 128, 185>>]
          [] s = "minimal"      -> [background |-> <<255, 255, 255>>, text |-> <<0, 0, 0>>,
                                    accent |-> <<52, 73, 94>>]
          [] s = "dynamic"      -> [background |-> <<255, 255, 255>>, text |-> <<0, 0, 0>>,
                                    accent |-> <<192, 57, 43>>]
          [] s = "professional" -> [background |-> <<250, 250, 250>>, text |-> <<44, 62, 80>>,
                                    accent |-> <<52, 152, 219>>]
          [] s = "academic"     -> [background |-> <<253, 254, 254>>, text |-> <<40, 40, 40>>,
                                    accent |-> <<41, 128, 185>>]
          [] s = "energetic"    -> [background |-> <<255, 255, 255>>, text |-> <<0, 0, 0>>,
                                    accent |-> <<230, 126, 34>>]]

\* the styles in the order the module defines them: the color_scheme
\* dictionary of the k-th style is the k-th dictionary alive
StyleOrder ==
    <<"standard", "minimal", "dynamic", "professional", "academic", "energetic">>

SchemeId(s) == CHOOSE k \in 1..Len(StyleOrder) : StyleOrder[k] = s

\* ANIMATION_PRESETS as the module leaves it after import: dictionaries whose
\* "color_scheme" refers to a dictionary of their own
LoadedPresets ==
    [s \in StyleNames |->
        [complexity          |-> ANIMATION_PRESETS[s].complexity,
         transition_type     |-> ANIMATION_PRESETS[s].transition_type,
         transition_duration |-> ANIMATION_PRESETS[s].transition_duration,
         color_scheme        |-> SchemeId(s)]]

LoadedSchemes == [k \in 1..Len(StyleOrder) |-> COLOR_SCHEMES[StyleOrder[k]]]

\* dict.copy(): a new dictionary with the same values; a value that is a
\* dictionary is the same object in both
dict_copy(dct) == dct

\* get_animation_preset on the catalog as it is now
preset_copy(catalog, style_name) ==
    IF style_name \in StyleNames
    THEN dict_copy(catalog[style_name])
    ELSE dict_copy(catalog["standard"])

\* what a dictionary says when read through, nested dictionary included
DeepValue(dct, schemes) == [dct EXCEPT !.color_scheme = schemes[dct.color_scheme]]

----------------------------------------------------------------------------
(* animation_engine.py *)

\* AnimationEngine.apply_animation_style: a copy of the preset, its complexity
\* overridden by a non-empty config["ANIMATION_COMPLEXITY"]
apply_animation_style(cfg) ==
    LET preset == get_animation_preset(cfg.DEFAULT_ANIMATION_STYLE)
    IN  IF cfg.ANIMATION_COMPLEXITY # ""
        THEN [preset EXCEPT !.complexity = cfg.ANIMATION_COMPLEXITY]
        ELSE preset

\* mutant: the floor of one frame is forgotten
SectionFrameCount_NoFloor(duration, fps) == PyRound(duration * fps, 10)

\* frame_count of _generate_section_frames
SectionFrameCount(duration, fps) == Max(1, PyRound(duration * fps, 10))

\* _generate_section_frames: one path per frame index; a path is the frame
\* index inside the section's frames_dir (frame_{idx:05d}.png)
generate_section_frames(audio_segment, fps) ==
    Range(SectionFrameCount(audio_segment.duration, fps))

\* next((seg for seg in segments if seg["section_idx"] == idx), None)
RECURSIVE FindAudio(_, _)
FindAudio(segments, idx) ==
    IF segments = <<>> THEN None
    ELSE IF Head(segments).section_idx = idx THEN Head(segments)
    ELSE FindAudio(Tail(segments), idx)

\* mutant: every section's frames go to the directory of the first section
create_section_animation_SharedDir(section_idx, audio_segment, cfg) ==
    LET frames == generate_section_frames(audio_segment, cfg.OUTPUT_FPS)
    IN  [section_idx |-> section_idx,
         frames_dir  |-> <<"section", 1>>,
         frame_count |-> Len(frames),
         frame_paths |-> frames,
         duration    |-> audio_segment.duration,
         fps         |-> cfg.OUTPUT_FPS,
         style       |-> cfg.DEFAULT_ANIMATION_STYLE]

create_section_animation(section_idx, audio_segment, cfg) ==
    LET frames == generate_section_frames(audio_segment, cfg.OUTPUT_FPS)
    IN  [section_idx |-> section_idx,
         frames_dir  |-> <<"section", section_idx + 1>>,
         frame_count |-> Len(frames),
         frame_paths |-> frames,
         duration    |-> audio_segment.duration,
         fps         |-> cfg.OUTPUT_FPS,
         style       |-> cfg.DEFAULT_ANIMATION_STYLE]

\* the section loop of create_animations over section_idx = from..n-1
RECURSIVE AnimateSections(_, _, _, _)
AnimateSections(from, n, audio, cfg) ==
    IF from >= n THEN <<>>
    ELSE LET audio_segment == FindAudio(audio, from)
         IN  IF audio_segment = None
             THEN AnimateSections(from + 1, n, audio, cfg)
             ELSE <<create_section_animation(from, audio_segment, cfg)>>
                  \o AnimateSections(from + 1, n, audio, cfg)

\* the warnings of the section loop of create_animations
AnimateSectionsLog(n, audio) ==
    {[level |-> "warning", what |-> "no_audio_segment", idx |-> i] :
        i \in {j \in 0..(n - 1) : FindAudio(audio, j) = None}}

----------------------------------------------------------------------------
(* animation_engine.py: image caching and fitting *)

\* An image is [size, pixels, tint]: pixels says what was drawn (a decoded
\* file, or a file letterboxed on a white canvas), tint counts what a holder of
\* the object drew over it afterwards.  engine.heap[id] is the image object id.

\* Image.open(path) followed by img.load()
Decode(path, size) ==
    [size |-> size, pixels |-> [kind |-> "file", path |-> path], tint |-> 0]

\* img.copy(): a new object with the same pixels
Copy(e, id) ==
    [engine |-> [e EXCEPT !.heap = Append(@, e.heap[id])], id |-> Len(e.heap) + 1]

\* the size standing for a file that exists and is not an image
Undecodable == <<0, 0>>

\* Image.open(path) of _load_image raises: the path is not cached and there is
\* no such file, or the file cannot be decoded
open_raises(e, files, path) ==
    /\ path \notin DOMAIN e.loaded_cache
    /\ (path \notin DOMAIN files \/ files[path] = Undecodable)

\* mutant: the decoded image is not kept in _loaded_cache
load_image_NoCache(e, files, path) ==
    IF path \in DOMAIN e.loaded_cache
    THEN [engine |-> e, id |-> e.loaded_cache[path]]
    ELSE [engine |-> [e EXCEPT !.heap = Append(@, Decode(path, files[path]))],
          id |-> Len(e.heap) + 1]

\* AnimationEngine._load_image
load_image(e, files, path) ==
    IF path \in DOMAIN e.loaded_cache
    THEN [engine |-> e, id |-> e.loaded_cache[path]]
    ELSE [engine |-> [e EXCEPT !.heap = Append(@, Decode(path, files[path])),
                               !.loaded_cache = @ @@ (path :> (Len(e.heap) + 1))],
          id |-> Len(e.heap) + 1]

\* mutant: the image is fitted by the larger of the two ratios (cover, not fit)
FitScale_Cover(sw, sh, tw, th) ==
    IF tw * sh >= th * sw THEN <<tw, sw>> ELSE <<th, sh>>

\* scale = min(tw / sw, th / sh), as the fraction <<numerator, denominator>>
FitScale(sw, sh, tw, th) ==
    IF tw * sh <= th * sw THEN <<tw, sw>> ELSE <<th, sh>>

\* mutant: only the source size is validated
resize_image_to_fit_SourceOnly(img, target) ==
    LET sw == img.size[1]
        sh == img.size[2]
        tw == target[1]
        th == target[2]
    IN  IF sw <= 0 \/ sh <= 0
        THEN [raised |-> "ValueError"]
        ELSE [raised |-> "",
              canvas |-> [size   |-> <<tw, th>>,
                          pixels |-> [kind    |-> "letterbox",
                                      of      |-> [pixels |-> img.pixels,
                                                   tint   |-> img.tint],
                                      resized |-> <<1, 1>>,
                                      at      |-> <<0, 0>>],
                          tint   |-> 0]]

\* AnimationEngine._resize_image_to_fit on an image of size src: the
\* letterboxed canvas, or the ValueError
resize_image_to_fit(img, target) ==
    LET sw == img.size[1]
        sh == img.size[2]
        tw == target[1]
        th == target[2]
    IN  IF sw <= 0 \/ sh <= 0 \/ tw <= 0 \/ th <= 0
        THEN [raised |-> "ValueError"]
        ELSE LET scale == FitScale(sw, sh, tw, th)
                 nw == Max(1, PyRound(sw * scale[1], scale[2]))
                 nh == Max(1, PyRound(sh * scale[1], scale[2]))
                 px == (tw - nw) \div 2
                 py == (th - nh) \div 2
             IN  [raised |-> "",
                  canvas |-> [size   |-> <<tw, th>>,
                              pixels |-> [kind    |-> "letterbox",
                                          of      |-> [pixels |-> img.pixels,
                                                       tint   |-> img.tint],
                                          resized |-> <<nw, nh>>,
                                          at      |-> <<px, py>>],
                              tint   |-> 0]]

\* mutant: a cache hit returns the cached canvas itself
ReturnCached_NoCopy(e, cached) == [engine |-> e, id |-> cached]

\* return cached.copy()
ReturnCached(e, cached) == Copy(e, cached)

\* AnimationEngine._get_fitted_canvas: the engine afterwards, and the id of
\* the canvas returned or the exception raised
get_fitted_canvas(e, files, path, target) ==
    LET key == <<path, target[1], target[2]>>
    IN  IF key \in DOMAIN e.fitted_cache
        THEN LET r == ReturnCached(e, e.fitted_cache[key])
             IN  [engine |-> r.engine, raised |-> "", id |-> r.id]
        ELSE IF open_raises(e, files, path)
        THEN [engine |-> e, raised |-> "OSError", id |-> 0]
        ELSE LET src    == load_image(e, files, path)
                 fitted == resize_image_to_fit(src.engine.heap[src.id], target)
             IN  IF fitted.raised # ""
                 THEN [engine |-> src.engine, raised |-> fitted.raised, id |-> 0]
                 ELSE LET id == Len(src.engine.heap) + 1
                          e2 == [src.engine EXCEPT
                                    !.heap = Append(@, fitted.canvas),
                                    !.fitted_cache = @ @@ (key :> id)]
                          r  == Copy(e2, id)
                      IN  [engine |-> r.engine, raised |-> "", id |-> r.id]

----------------------------------------------------------------------------
(* animation_engine.py: effects *)

\* A frame image under effects is [mode, alpha, zoom, offset]: the global
\* alpha of its pixels (255 in mode RGB), the factor <<numerator, denominator>>
\* its content was resized by, and the position it was pasted at.
\* time_pos is the fraction <<numerator, denominator>>.

\* the fitted canvas as _generate_frame hands it over (img = base.copy())
BaseFrame == [mode |-> "RGB", alpha |-> 255, zoom |-> <<1, 1>>, offset |-> <<0, 0>>]

\* mutant: the frame index is divided by frame_count, not frame_count - 1
TimePos_ByCount(frame_idx, frame_count) ==
    IF frame_count > 1 THEN <<frame_idx, frame_count>> ELSE <<0, 1>>

\* time_pos of _generate_section_frames
TimePos(frame_idx, frame_count) ==
    IF frame_count > 1 THEN <<frame_idx, frame_count - 1>> ELSE <<0, 1>>

\* mutant: every tier fades over the first 30%
FadeWindow_Shared(complexity) == <<3, 10>>

\* the literal 0.1, 0.2 or 0.3 a tier compares time_pos with and divides it by
FadeWindow(complexity) ==
    CASE complexity = "low"    -> <<1, 10>>
      [] complexity = "medium" -> <<2, 10>>
      [] complexity = "high"   -> <<3, 10>>

\* time_pos < T
InWindow(t, T) == t[1] * T[2] < T[1] * t[2]

\* int(255 * (time_pos / T)).  The source computes it in IEEE-754 doubles: for
\* frame counts up to 25 the result is the exact floor(255 * t / T) except at
\* t = 1/17 (low, medium) and t = 2/17 (medium), where time_pos / T falls just
\* below the exact quotient and the result is one less.
EffectAlpha(t, T) ==
    PyInt(255 * t[1] * T[2], t[2] * T[1])
        - (IF \/ (t = <<1, 17>> /\ T \in {<<1, 10>>, <<2, 10>>})
              \/ (t = <<2, 17>> /\ T = <<2, 10>>)
           THEN 1 ELSE 0)

\* AnimationEngine._apply_alpha
apply_alpha(img, alpha) ==
    [img EXCEPT !.mode = "RGBA", !.alpha = Max(0, Min(255, alpha))]

\* AnimationEngine._apply_zoom: the content resized by zoom_factor and centred
\* on a canvas of the same size
apply_zoom(img, zoom_factor) ==
    [img EXCEPT !.zoom = <<img.zoom[1] * zoom_factor[1], img.zoom[2] * zoom_factor[2]>>]

\* AnimationEngine._apply_offset
apply_offset(img, offset) ==
    [img EXCEPT !.offset = <<img.offset[1] + offset[1], img.offset[2] + offset[2]>>]

\* AnimationEngine._apply_animation_effects
apply_animation_effects(img, t, style_params) ==
    LET complexity == style_params.complexity
    IN  IF complexity \notin {"low", "medium", "high"} THEN img
        ELSE LET T == FadeWindow(complexity)
                 a == t[2] * T[1]          \* time_pos / T = (t[1] * T[2]) / a
             IN  IF ~InWindow(t, T) THEN img
                 ELSE IF complexity = "low"
                 THEN apply_alpha(img, EffectAlpha(t, T))
                 ELSE IF complexity = "medium"
                 THEN apply_zoom(apply_alpha(img, EffectAlpha(t, T)),
                                 <<95 * a + 5 * t[1] * T[2], 100 * a>>)
                 ELSE apply_offset(
                          apply_zoom(apply_alpha(img, EffectAlpha(t, T)),
                                     <<90 * a + 10 * t[1] * T[2], 100 * a>>),
                          <<PyInt(10 * (a - t[1] * T[2]), a),
                            PyInt(5 * (a - t[1] * T[2]), a)>>)

----------------------------------------------------------------------------
(* transition_effects.py *)

\* mutant: the frame loop runs once more (range(frame_count + 1))
fade_transition_Inclusive(duration, fps) == Range(PyInt(duration * fps, 10) + 1)

\* TransitionEffects.fade_transition: frame_count = int(duration * fps), one
\* path per frame index inside output_dir
fade_transition(duration, fps) == Range(PyInt(duration * fps, 10))

\* TransitionEffects.slide_transition: frame_count = int(duration * fps)
slide_transition(duration, fps) == Range(PyInt(duration * fps, 10))

\* The frames of a transition.  An image is the frame file [dir, path] it was
\* opened from, or [blank |-> TRUE] for Image.new("RGB", ..., color="white").
\* A blended frame is [kind |-> "blend", from, to, alpha], a slid one
\* [kind |-> "slide", from, to, from_x, to_x], a zoomed one
\* [kind |-> "zoom", of, zoom_factor, opacity]; fractions are <<num, den>>.

Blank == [blank |-> TRUE]

\* the last frame of the source segment / the first frame of the target one
LastFrame(segment) ==
    IF segment.frame_paths # <<>>
    THEN [dir |-> segment.frames_dir, path |-> segment.frame_paths[Len(segment.frame_paths)]]
    ELSE Blank

FirstFrame(segment) ==
    IF segment.frame_paths # <<>>
    THEN [dir |-> segment.frames_dir, path |-> segment.frame_paths[1]]
    ELSE Blank

\* frame_idx / (frame_count - 1) if frame_count > 1 else 1.0
TransitionPos(frame_idx, frame_count) ==
    IF frame_count > 1 THEN <<frame_idx, frame_count - 1>> ELSE <<1, 1>>

\* the fade loop: Image.blend(from_img, to_img, alpha) per frame
blend_frames(from_img, to_img, frame_count) ==
    [i \in 1..frame_count |->
        [kind  |-> "blend", from |-> from_img, to |-> to_img,
         alpha |-> TransitionPos(i - 1, frame_count)]]

\* the slide loop: both images pasted on a white frame of the given width
slide_frames(from_img, to_img, frame_count, width) ==
    [i \in 1..frame_count |->
        LET slide_pos == TransitionPos(i - 1, frame_count)
        IN  [kind   |-> "slide", from |-> from_img, to |-> to_img,
             from_x |-> PyInt(-(width * slide_pos[1]), slide_pos[2]),
             to_x   |-> PyInt(width * (slide_pos[2] - slide_pos[1]), slide_pos[2])]]

\* the zoom loop of create_transition_frames.  int(zoom_pos * 2 * 255) and
\* int((zoom_pos - 0.5) * 2 * 255) are computed in doubles: for frame counts
\* up to 10 they are the exact floor except at zoom_pos = 2/3 and 3/5, where
\* the result is one less.
zoom_frames(from_img, to_img, frame_count) ==
    [i \in 1..frame_count |->
        LET zoom_pos == TransitionPos(i - 1, frame_count)
            num == zoom_pos[1]
            den == zoom_pos[2]
            short == IF 3 * num = 2 * den \/ 5 * num = 3 * den THEN 1 ELSE 0
        IN  IF 2 * num < den
            THEN [kind |-> "zoom", of |-> from_img,
                  zoom_factor |-> <<2 * den - num, 2 * den>>,
                  opacity |-> Max(0, Min(255, 255 - PyInt(510 * num, den)))]
            ELSE [kind |-> "zoom", of |-> to_img,
                  zoom_factor |-> <<num, den>>,
                  opacity |-> Max(0, Min(255, PyInt(255 * (2 * num - den), den) - short))]]

\* the warning of TransitionEffects.create_transition_frames
create_transition_frames_log(transition_type) ==
    IF transition_type \in {"fade", "slide", "zoom"} THEN {}
    ELSE {[level |-> "warning", what |-> "unknown_transition_type", idx |-> 0]}

\* TransitionEffects.create_transition_frames; the width is from_img.size[0]
create_transition_frames(from_img, to_img, transition_type, frame_count, width) ==
    IF transition_type = "fade" THEN blend_frames(from_img, to_img, frame_count)
    ELSE IF transition_type = "slide"
    THEN slide_frames(from_img, to_img, frame_count, width)
    ELSE IF transition_type = "zoom" THEN zoom_frames(from_img, to_img, frame_count)
    ELSE blend_frames(from_img, to_img, frame_count)

\* the frames TransitionEffects.fade_transition writes
fade_transition_frames(from_segment, to_segment, duration, fps) ==
    blend_frames(LastFrame(from_segment), FirstFrame(to_segment),
                 Len(fade_transition(duration, fps)))

\* the frames TransitionEffects.slide_transition writes
slide_transition_frames(from_segment, to_segment, duration, fps, width) ==
    slide_frames(LastFrame(from_segment), FirstFrame(to_segment),
                 Len(slide_transition(duration, fps)), width)

----------------------------------------------------------------------------
(* animation_engine.py: transitions and create_animations *)

create_transition_animation(from_segment, to_segment, style_params, cfg) ==
    LET transition_duration == style_params.transition_duration
        ttype  == style_params.transition_type
        frames == IF ttype = "fade"
                  THEN fade_transition(transition_duration, cfg.OUTPUT_FPS)
                  ELSE IF ttype = "slide"
                  THEN slide_transition(transition_duration, cfg.OUTPUT_FPS)
                  ELSE fade_transition(transition_duration, cfg.OUTPUT_FPS)
    IN  [from_section_idx |-> from_segment.section_idx,
         to_section_idx   |-> to_segment.section_idx,
         frames_dir       |-> <<"transition", from_segment.section_idx,
                                to_segment.section_idx>>,
         frame_count      |-> Len(frames),
         frame_paths      |-> frames,
         duration         |-> transition_duration,
         fps              |-> cfg.OUTPUT_FPS,
         transition_type  |-> ttype]

\* the frames _create_transition_animation has the library write
create_transition_animation_frames(from_segment, to_segment, style_params, cfg) ==
    LET transition_duration == style_params.transition_duration
        ttype == style_params.transition_type
    IN  IF ttype = "fade"
        THEN fade_transition_frames(from_segment, to_segment, transition_duration,
                                    cfg.OUTPUT_FPS)
        ELSE IF ttype = "slide"
        THEN slide_transition_frames(from_segment, to_segment, transition_duration,
                                     cfg.OUTPUT_FPS, cfg.OUTPUT_RESOLUTION[1])
        ELSE fade_transition_frames(from_segment, to_segment, transition_duration,
                                    cfg.OUTPUT_FPS)

\* what _create_transition_animation logs at warning level or above: nothing
create_transition_animation_log(style_params) == {}

\* mutant: one transition per section, the last one back to the first section
CreateTransitions_Wrap(animation_segments, style_params, cfg) ==
    [i \in 1..Len(animation_segments) |->
        create_transition_animation(animation_segments[i],
                                    animation_segments[(i % Len(animation_segments)) + 1],
                                    style_params, cfg)]

\* the transition loop of create_animations: one transition per adjacent pair
CreateTransitions(animation_segments, style_params, cfg) ==
    [i \in 1..(Len(animation_segments) - 1) |->
        create_transition_animation(animation_segments[i], animation_segments[i + 1],
                                    style_params, cfg)]

\* mutant: the section loop stops at the first section without audio
create_animations_Abort(n, audio, cfg) ==
    LET stops == {j \in 0..(n - 1) : FindAudio(audio.sections, j) = None} \cup {n}
        stop  == CHOOSE m \in stops : \A k \in stops : m <= k
        style_params       == apply_animation_style(cfg)
        animation_segments == AnimateSections(0, stop, audio.sections, cfg)
        transition_segments == CreateTransitions(animation_segments, style_params, cfg)
    IN  [sections    |-> animation_segments,
         transitions |-> transition_segments,
         style       |-> cfg.DEFAULT_ANIMATION_STYLE,
         metadata    |-> [total_duration |-> SumDuration(animation_segments),
                          section_count  |-> Len(animation_segments),
                          fps            |-> cfg.OUTPUT_FPS]]

create_animations(n, audio, cfg) ==
    LET style_params       == apply_animation_style(cfg)
        animation_segments == AnimateSections(0, n, audio.sections, cfg)
        transition_segments == CreateTransitions(animation_segments, style_params, cfg)
    IN  [sections    |-> animation_segments,
         transitions |-> transition_segments,
         style       |-> cfg.DEFAULT_ANIMATION_STYLE,
         metadata    |-> [total_duration |-> SumDuration(animation_segments),
                          section_count  |-> Len(animation_segments),
                          fps            |-> cfg.OUTPUT_FPS]]

----------------------------------------------------------------------------
(* animation_engine.py: the frames of one section *)

\* A frame file is [size, kind]: a plain white canvas, or the fitted canvas
\* `base` shown through the effect [alpha, zoom, offset] over white.  An image
\* id of 0 stands for None.

\* mutant: a section past the end of the list is given the last slide or page
get_section_visuals_Clamped(section_idx, visuals) ==
    IF "slides" \in DOMAIN visuals
    THEN IF visuals.slides # <<>>
         THEN <<visuals.slides[Min(section_idx + 1, Len(visuals.slides))]>> ELSE <<>>
    ELSE IF "pages" \in DOMAIN visuals
    THEN IF visuals.pages # <<>>
         THEN <<visuals.pages[Min(section_idx + 1, Len(visuals.pages))]>> ELSE <<>>
    ELSE <<>>

\* AnimationEngine._get_section_visuals
get_section_visuals(section_idx, visuals) ==
    IF "slides" \in DOMAIN visuals
    THEN IF 0 <= section_idx /\ section_idx < Len(visuals.slides)
         THEN <<visuals.slides[section_idx + 1]>> ELSE <<>>
    ELSE IF "pages" \in DOMAIN visuals
    THEN IF 0 <= section_idx /\ section_idx < Len(visuals.pages)
         THEN <<visuals.pages[section_idx + 1]>> ELSE <<>>
    ELSE <<>>

\* the warnings of _get_section_visuals
get_section_visuals_log(section_idx, visuals) ==
    IF get_section_visuals(section_idx, visuals) # <<>> THEN {}
    ELSE {[level |-> "warning",
           what  |-> IF "slides" \in DOMAIN visuals THEN "no_slide"
                     ELSE IF "pages" \in DOMAIN visuals THEN "no_page"
                     ELSE "no_visual_content",
           idx   |-> section_idx]}

\* Image.new("RGB", self.output_resolution, color="white")
WhiteFrame(size) == [size |-> size, kind |-> "white"]

\* the frame _generate_frame keeps for an image of the frame's size: an RGBA
\* image is pasted on white through its alpha channel (alpha 0 leaves the
\* white), an RGB image is the frame
Flatten(canvas, img) ==
    IF img.mode = "RGBA" /\ img.alpha = 0
    THEN WhiteFrame(canvas.size)
    ELSE [size   |-> canvas.size,
          kind   |-> "image",
          base   |-> [pixels |-> canvas.pixels, tint |-> canvas.tint],
          effect |-> [alpha |-> img.alpha, zoom |-> img.zoom, offset |-> img.offset]]

\* the record of one _get_fitted_canvas call and its outcome r
CallEvent(path, target, r) ==
    [event  |-> "call",
     key    |-> <<path, target[1], target[2]>>,
     raised |-> r.raised,
     id     |-> r.id,
     image  |-> IF r.raised = "" THEN r.engine.heap[r.id] ELSE None]

\* the try block of _generate_frame once the base is fetched: r is the outcome
\* of the fetch, calls the _get_fitted_canvas calls it took
FrameFromBase(r, calls, ctx, time_pos, frame_idx) ==
    IF r.raised # "" \/ frame_idx \in ctx.faults
    THEN [engine |-> r.engine, calls |-> calls,
          frame  |-> WhiteFrame(ctx.cfg.OUTPUT_RESOLUTION),
          log    |-> {[level |-> "error", what |-> "processing_visual",
                       idx |-> frame_idx]}]
    ELSE [engine |-> r.engine, calls |-> calls,
          frame  |-> Flatten(r.engine.heap[r.id],
                             apply_animation_effects(BaseFrame, time_pos,
                                                     ctx.style_params)),
          log    |-> {}]

\* the fetch of _generate_frame when no fitted_base was handed in
FetchPerFrame(r, ctx, time_pos, frame_idx) ==
    FrameFromBase(r, <<CallEvent(ctx.visual_content[1].path,
                                 ctx.cfg.OUTPUT_RESOLUTION, r)>>,
                  ctx, time_pos, frame_idx)

\* AnimationEngine._generate_frame.  ctx holds what is the same for every frame
\* of the section: files, visual_content, style_params, cfg, fitted_base and
\* the frame indices at which applying the effects raises.  base.copy() and
\* img are temporaries of the call and are not kept on the heap.
generate_frame(e, ctx, time_pos, frame_idx) ==
    IF ctx.visual_content = <<>>
    THEN [engine |-> e, calls |-> <<>>,
          frame |-> WhiteFrame(ctx.cfg.OUTPUT_RESOLUTION), log |-> {}]
    ELSE IF ctx.fitted_base # 0
    THEN FrameFromBase([engine |-> e, raised |-> "", id |-> ctx.fitted_base], <<>>,
                       ctx, time_pos, frame_idx)
    ELSE FetchPerFrame(get_fitted_canvas(e, ctx.files, ctx.visual_content[1].path,
                                         ctx.cfg.OUTPUT_RESOLUTION),
                       ctx, time_pos, frame_idx)

\* the frame loop of _generate_section_frames, from frame_idx on; f is the
\* outcome of _generate_frame for frame_idx
RECURSIVE generate_frames_from(_, _, _, _)
RECURSIVE FramesAfter(_, _, _, _)
FramesAfter(f, frame_idx, frame_count, ctx) ==
    LET rest == generate_frames_from(frame_idx + 1, frame_count, f.engine, ctx)
    IN  [engine |-> rest.engine,
         calls  |-> f.calls \o rest.calls,
         files  |-> <<[path     |-> frame_idx,
                       time_pos |-> TimePos(frame_idx, frame_count),
                       image    |-> f.frame]>> \o rest.files,
         log    |-> f.log \cup rest.log]

generate_frames_from(frame_idx, frame_count, e, ctx) ==
    IF frame_idx >= frame_count
    THEN [engine |-> e, calls |-> <<>>, files |-> <<>>, log |-> {}]
    ELSE FramesAfter(generate_frame(e, ctx, TimePos(frame_idx, frame_count), frame_idx),
                     frame_idx, frame_count, ctx)

\* what one turn of the section loop leaves: r is the outcome of preparing the
\* base (prepared says whether it was tried), g the outcome of the frame loop
SectionOutcome(g, r, prepared, path, cfg, args) ==
    [engine |-> g.engine,
     calls  |-> (IF prepared
                 THEN <<CallEvent(path, cfg.OUTPUT_RESOLUTION, r)>> ELSE <<>>)
                \o g.calls,
     files  |-> g.files,
     log    |-> get_section_visuals_log(args.section_idx, args.visuals)
                \cup (IF prepared /\ r.raised # ""
                      THEN {[level |-> "error", what |-> "prepare_base",
                             idx |-> args.section_idx]}
                      ELSE {})
                \cup g.log,
     animation |-> [section_idx |-> args.section_idx,
                    frames_dir  |-> <<"section", args.section_idx + 1>>,
                    frame_count |-> Len(g.files),
                    frame_paths |-> [i \in 1..Len(g.files) |-> g.files[i].path],
                    duration    |-> args.audio_segment.duration,
                    fps         |-> cfg.OUTPUT_FPS,
                    style       |-> cfg.DEFAULT_ANIMATION_STYLE]]

\* _create_section_animation with the fitted_base of r
create_section_animation_with(r, visual_content, prepared, path, files, cfg, args) ==
    SectionOutcome(
        generate_frames_from(
            0, SectionFrameCount(args.audio_segment.duration, cfg.OUTPUT_FPS), r.engine,
            [files          |-> files,
             visual_content |-> visual_content,
             style_params   |-> apply_animation_style(cfg),
             cfg            |-> cfg,
             fitted_base    |-> r.id,
             faults         |-> args.faults]),
        r, prepared, path, cfg, args)

\* the body of the section loop of create_animations for a section that has an
\* audio segment: the base image prepared once, then _create_section_animation
animate_section(e, files, cfg, args) ==
    LET visual_content == get_section_visuals(args.section_idx, args.visuals)
        path    == IF visual_content # <<>> THEN visual_content[1].path ELSE ""
        prepare == visual_content # <<>> /\ path # "" /\ path \in DOMAIN files
    IN  create_section_animation_with(
            IF prepare
            THEN get_fitted_canvas(e, files, path, cfg.OUTPUT_RESOLUTION)
            ELSE [engine |-> e, raised |-> "", id |-> 0],
            visual_content, prepare, path, files, cfg, args)

----------------------------------------------------------------------------
(* compositor.py *)

\* mutant: the element keeps the visual duration, whatever the audio lasts
create_segment_composition_Visual(animation, audio, section_idx, cfg) ==
    [section_idx |-> section_idx,
     animation   |-> animation,
     audio       |-> audio,
     duration    |-> animation.duration,
     frame_count |-> animation.frame_count,
     fps         |-> cfg.OUTPUT_FPS]

create_segment_composition(animation, audio, section_idx, cfg) ==
    [section_idx |-> section_idx,
     animation   |-> animation,
     audio       |-> audio,
     duration    |-> Max(animation.duration, audio.duration),
     frame_count |-> animation.frame_count,
     fps         |-> cfg.OUTPUT_FPS]

create_transition_composition(animation, audio, transition_idx, cfg) ==
    [transition_idx   |-> transition_idx,
     from_section_idx |-> animation.from_section_idx,
     to_section_idx   |-> animation.to_section_idx,
     animation        |-> animation,
     audio            |-> audio,
     duration         |-> IF audio # None
                          THEN Max(animation.duration, audio.duration)
                          ELSE animation.duration,
     frame_count      |-> animation.frame_count,
     fps              |-> cfg.OUTPUT_FPS]

IsSegment(e) == "section_idx" \in DOMAIN e

IsTransition(e) == "transition_idx" \in DOMAIN e

\* sorted(items, key=lambda x: x[key]): stable, ascending
RECURSIVE InsertByKey(_, _, _)
InsertByKey(x, s, key) ==
    IF s = <<>> THEN <<x>>
    ELSE IF s[Len(s)][key] <= x[key] THEN Append(s, x)
    ELSE Append(InsertByKey(x, SubSeq(s, 1, Len(s) - 1), key), s[Len(s)])

RECURSIVE SortedByKey(_, _)
SortedByKey(s, key) ==
    IF s = <<>> THEN <<>>
    ELSE InsertByKey(s[Len(s)], SortedByKey(SubSeq(s, 1, Len(s) - 1), key), key)

\* the interleaving loop of assemble_video_segments, from transition i (0-based)
RECURSIVE Interleave(_, _, _)
Interleave(i, segments, transitions) ==
    IF i >= Len(transitions) THEN <<>>
    ELSE <<transitions[i + 1]>>
         \o (IF i + 1 < Len(segments) THEN <<segments[i + 2]>> ELSE <<>>)
         \o Interleave(i + 1, segments, transitions)

assemble_video_segments(segs, trans, cfg) ==
    LET segments    == SortedByKey(segs, "section_idx")
        transitions == SortedByKey(trans, "transition_idx")
        composition_elements ==
            (IF segments # <<>> THEN <<segments[1]>> ELSE <<>>)
            \o Interleave(0, segments, transitions)
    IN  [elements          |-> composition_elements,
         segment_count     |-> Len(segments),
         transition_count  |-> Len(transitions),
         total_duration    |-> SumDuration(composition_elements),
         total_frame_count |-> SumFrameCount(composition_elements),
         fps               |-> cfg.OUTPUT_FPS]

\* the section loop of sync_audio_with_visuals, from enumerate index i (0-based)
RECURSIVE SegmentCompositions(_, _, _, _)
SegmentCompositions(i, animation_sections, audio_sections, cfg) ==
    IF i >= Len(animation_sections) THEN <<>>
    ELSE LET anim_section  == animation_sections[i + 1]
             audio_section == FindAudio(audio_sections, anim_section.section_idx)
         IN  IF audio_section = None
             THEN SegmentCompositions(i + 1, animation_sections, audio_sections, cfg)
             ELSE <<create_segment_composition(anim_section, audio_section, i, cfg)>>
                  \o SegmentCompositions(i + 1, animation_sections, audio_sections, cfg)

\* the warnings of the section loop of sync_audio_with_visuals
SegmentCompositionsLog(animation_sections, audio_sections) ==
    {[level |-> "warning", what |-> "no_audio", idx |-> i - 1] :
        i \in {j \in 1..Len(animation_sections) :
                 FindAudio(audio_sections, animation_sections[j].section_idx) = None}}

\* mutant: a transition without audio is skipped, as a section is
TransitionCompositions_RequireAudio(animation_transitions, audio_transitions, cfg) ==
    LET kept == SelectSeq([i \in 1..Len(animation_transitions) |-> i],
                    LAMBDA i : FindAudio(audio_transitions,
                                   animation_transitions[i].from_section_idx) # None)
    IN  [k \in 1..Len(kept) |->
            create_transition_composition(
                animation_transitions[kept[k]],
                FindAudio(audio_transitions, animation_transitions[kept[k]].from_section_idx),
                kept[k] - 1, cfg)]

\* the transition loop of sync_audio_with_visuals
TransitionCompositions(animation_transitions, audio_transitions, cfg) ==
    [i \in 1..Len(animation_transitions) |->
        create_transition_composition(
            animation_transitions[i],
            FindAudio(audio_transitions, animation_transitions[i].from_section_idx),
            i - 1, cfg)]

sync_audio_with_visuals(animations, audio, cfg) ==
    assemble_video_segments(
        SegmentCompositions(0, animations.sections, audio.sections, cfg),
        TransitionCompositions(animations.transitions, audio.transitions, cfg),
        cfg)

----------------------------------------------------------------------------
(* encoder.py *)

\* A clip resource is [kind, element, closed]: the ImageSequenceClip of an
\* element ("video"), its AudioFileClip ("audio") or the concatenated clip
\* ("final"); set_duration, set_audio, subclip and resize return views of the
\* same resources.  fault is the step of the media backend that raises:
\* [step, at], at being the 1-based element it strikes.  Durations are
\* fractions <<num, den>> of tenths of a second.

\* [p for p in raw_frames if isinstance(p, str) and os.path.exists(p)]
ExistingFrames(raw_frames, files) ==
    SelectSeq(raw_frames, LAMBDA q : q \in files.frames)

\* mutant: audio shorter than the clip is attached as it is
match_audio_NoPad(src, duration) ==
    IF src[1] * duration[2] > duration[1] * src[2]
    THEN [duration |-> <<duration[1] - 0 * duration[2], duration[2]>>,
          fitted   |-> "subclip"]
    ELSE [duration |-> src, fitted |-> "as_is"]

\* the audio clip attached to a clip of `duration`, src being the length of
\* the audio file: aclip.set_duration(duration) sets the clip's duration,
\* aclip.subclip(0, duration) makes a clip of duration t_end - t_start
match_audio(src, duration) ==
    IF src[1] * duration[2] < duration[1] * src[2]
    THEN [duration |-> duration, fitted |-> "set_duration"]
    ELSE IF src[1] * duration[2] > duration[1] * src[2]
    THEN [duration |-> <<duration[1] - 0 * duration[2], duration[2]>>,
          fitted   |-> "subclip"]
    ELSE [duration |-> src, fitted |-> "as_is"]

\* VideoEncoder._create_clip_from_element for element idx: the clip returned
\* (None when there is none), the resources created and the log records
create_clip_from_element(element, idx, fps, files, fault) ==
    LET frame_paths == ExistingFrames(element.animation.frame_paths, files)
        here(step)  == fault.step = step /\ fault.at = idx
        duration    == IF element.duration > 0 THEN <<element.duration, 1>>
                       ELSE <<10 * Len(frame_paths), fps>>
        video       == [kind |-> "video", element |-> idx, closed |-> FALSE]
        audio_path  == IF element.audio # None THEN element.audio.path ELSE ""
        has_audio   == audio_path # "" /\ audio_path \in DOMAIN files.audio
        loaded      == has_audio /\ ~here("AudioFileClip")
        aclip       == [kind |-> "audio", element |-> idx, closed |-> FALSE]
        src         == <<files.audio[audio_path], 1>>
    IN  IF frame_paths = <<>>
        THEN [clip |-> None, created |-> <<>>,
              log  |-> {[level |-> "warning", what |-> "no_valid_frames", idx |-> idx]}]
        ELSE IF here("ImageSequenceClip")
        THEN [clip |-> None, created |-> <<>>,
              log  |-> {[level |-> "error", what |-> "create_clip", idx |-> idx]}]
        ELSE IF here("set_duration")
        THEN [clip |-> None, created |-> <<video>>,
              log  |-> {[level |-> "error", what |-> "create_clip", idx |-> idx]}]
        ELSE IF loaded /\ here("set_audio")
        THEN [clip |-> None, created |-> <<video, aclip>>,
              log  |-> {[level |-> "error", what |-> "create_clip", idx |-> idx]}]
        ELSE [clip    |-> [element  |-> idx,
                           frames   |-> frame_paths,
                           duration |-> duration,
                           audio    |-> IF loaded
                                        THEN [path |-> audio_path]
                                                 @@ match_audio(src, duration)
                                        ELSE None],
              created |-> IF loaded THEN <<video, aclip>> ELSE <<video>>,
              log     |-> IF has_audio /\ ~loaded
                          THEN {[level |-> "warning", what |-> "audio_load", idx |-> idx]}
                          ELSE {}]

\* the clip loop of encode_video from element idx on: the clips appended, the
\* resources created, the log, and whether clip.resize raised
RECURSIVE BuildClips(_, _, _, _, _)
BuildClips(idx, elements, fps, files, fault) ==
    IF idx > Len(elements)
    THEN [clips |-> <<>>, created |-> <<>>, log |-> {}, raised |-> FALSE]
    ELSE LET c == create_clip_from_element(elements[idx], idx, fps, files, fault)
         IN  IF c.clip # None /\ fault.step = "resize" /\ fault.at = idx
             THEN [clips |-> <<>>, created |-> c.created, log |-> c.log, raised |-> TRUE]
             ELSE LET rest == BuildClips(idx + 1, elements, fps, files, fault)
                  IN  [clips   |-> (IF c.clip # None THEN <<c.clip>> ELSE <<>>) \o rest.clips,
                       created |-> c.created \o rest.created,
                       log     |-> c.log
                                   \cup (IF c.clip = None
                                         THEN {[level |-> "warning", what |-> "no_clip",
                                                idx |-> idx]}
                                         ELSE {})
                                   \cup rest.log,
                       raised  |-> rest.raised]

\* c.close() for every clip of the list: the resources of its element
CloseClips(resources, clips) ==
    [i \in 1..Len(resources) |->
        IF \E k \in 1..Len(clips) : clips[k].element = resources[i].element
        THEN [resources[i] EXCEPT !.closed = TRUE]
        ELSE resources[i]]

\* mutant: an exception of the backend leaves encode_video as it is
WrapError_Passthrough(exc) == exc

\* except Exception as e: raise VideoEncodingError(str(e)) from e
WrapError(exc) == "VideoEncodingError"

\* what an outcome of encode_video looks like
EncodeOutcome(raised, returned, resources, output, lg) ==
    [raised |-> raised, returned |-> returned, resources |-> resources,
     output |-> output, log |-> lg]

\* VideoEncoder.encode_video(composition, output_path)
encode_video(comp, output_path, fps, files, fault) ==
    IF comp.type # "dict"
    THEN EncodeOutcome("VideoEncodingError", None, <<>>, "none", {})
    ELSE IF "elements" \notin DOMAIN comp \/ comp.elements = <<>>
    THEN EncodeOutcome("VideoEncodingError", None, <<>>, "none", {})
    ELSE
    LET b      == BuildClips(1, comp.elements, fps, files, fault)
        fatal  == {[level |-> "error", what |-> "fatal_encoding", idx |-> 0]}
        final  == [kind |-> "final", element |-> 0, closed |-> FALSE]
        opened == b.created \o <<final>>
    IN  IF b.raised
        THEN EncodeOutcome(WrapError("ResizeError"), None, b.created, "none",
                           b.log \cup fatal)
        ELSE IF b.clips = <<>>
        THEN EncodeOutcome("VideoEncodingError", None, b.created, "none", b.log)
        ELSE IF fault.step = "concatenate"
        THEN EncodeOutcome(WrapError("ConcatenateError"), None, b.created, "none",
                           b.log \cup fatal)
        ELSE IF fault.step = "makedirs"
        THEN EncodeOutcome(WrapError("OSError"), None, opened, "none", b.log \cup fatal)
        ELSE IF fault.step = "write_videofile"
        THEN EncodeOutcome(WrapError("IOError"), None, opened, "none", b.log \cup fatal)
        ELSE IF fault.step = "write_videofile_midway"
        THEN EncodeOutcome(WrapError("IOError"), None, opened, "partial", b.log \cup fatal)
        ELSE EncodeOutcome(
                 "", output_path,
                 CloseClips(b.created, b.clips)
                     \o <<[final EXCEPT !.closed = TRUE]>>,
                 "complete", b.log)

----------------------------------------------------------------------------
(* Inputs *)

\* a list of audio records for the section indices in S, in ascending order
RECURSIVE AudioList(_, _, _, _)
AudioList(from, n, S, d) ==
    IF from >= n THEN <<>>
    ELSE (IF from \in S THEN <<[section_idx |-> from, duration |-> d[from]]>> ELSE <<>>)
         \o AudioList(from + 1, n, S, d)

AudioLists(n, durs) ==
    UNION { { AudioList(0, n, S, d) : d \in [S -> durs] } : S \in SUBSET (0..(n - 1)) }

\* every audio_segments dict over n sections: any subset of the sections has a
\* record, and any subset of the n-1 transitions has one
AudioInputs(n, durs, tdurs) ==
    [sections : AudioLists(n, durs), transitions : AudioLists(n - 1, tdurs)]

ConfigInputs ==
    [DEFAULT_ANIMATION_STYLE : StyleNames \cup {"foo"},
     ANIMATION_COMPLEXITY    : {"medium"},
     OUTPUT_FPS              : FpsSet]

CallerConfigInputs ==
    [DEFAULT_ANIMATION_STYLE : CallerStyles,
     ANIMATION_COMPLEXITY    : {"medium"},
     OUTPUT_FPS              : {1}]

----------------------------------------------------------------------------
(* main.py *)

\* the early returns of main(): the reason of the first check that fails
validate_arguments(args) ==
    IF ~args.openai_key THEN "no_openai_key"
    ELSE IF ~args.elevenlabs_key THEN "no_elevenlabs_key"
    ELSE IF ~args.input_exists THEN "input_not_found"
    ELSE IF ~args.output_writable THEN "invalid_output_path"
    ELSE ""

\* args.output: the option, or DEFAULT_OUTPUT_DIR/{input_name}_video.{format}
output_path(args) ==
    IF args.output # "" THEN args.output ELSE <<"output", "input", "_video", "mp4">>

\* the calls inside the try block of main(), in the order of its statements
StageOrder ==
    <<"init_components", "process_file", "analyze_text", "analyze_visuals",
      "create_content_flow", "generate_script", "process_audio", "create_animations",
      "sync_audio_with_visuals", "encode_video", "clean_temp_files">>

\* the statement main() executes next when the steps in ran have returned
next_stage(ran) == StageOrder[Len(ran) + 1]

\* mutant: the temporary files are cleaned up after a failure too (a finally)
on_exception_Cleanup(ran, stage, exc) ==
    [ran       |-> ran \o <<[stage |-> stage, raised |-> exc],
                            [stage |-> "clean_temp_files", raised |-> ""]>>,
     exit_code |-> 1]

\* except Exception as e: logger.exception(...); return 1
on_exception(ran, stage, exc) ==
    [ran       |-> Append(ran, [stage |-> stage, raised |-> exc]),
     exit_code |-> 1]

----------------------------------------------------------------------------
(* Components at rest *)

NewEngine == [heap |-> <<>>, loaded_cache |-> <<>>, fitted_cache |-> <<>>]

PipelineIdle ==
    /\ pc = "idle"
    /\ config = None
    /\ n_sections = 0
    /\ audio_segments = None
    /\ sync_audio = None
    /\ animation_data = None
    /\ composition = None
    /\ log = {}

FitterIdle ==
    /\ disk = <<>>
    /\ engine = NewEngine
    /\ history = <<>>

FitIdle ==
    /\ fit_args = None
    /\ fit_result = None

EffectIdle ==
    /\ eff_args = None
    /\ eff_result = None

EncoderIdle ==
    /\ enc_args = None
    /\ enc_result = None

CatalogIdle ==
    /\ preset_catalog = None
    /\ scheme_heap = <<>>
    /\ handed = <<>>

DriverIdle ==
    /\ drv_args = None
    /\ drv_pc = "idle"
    /\ drv_output = None
    /\ drv_ran = <<>>
    /\ exit_code = None

TransitionIdle ==
    /\ trans_args = None
    /\ trans_result = None

SectionIdle ==
    /\ sec_args = None
    /\ animation_preset = None
    /\ frame_files = <<>>
    /\ section_animation = None

----------------------------------------------------------------------------
(* The pipeline: main.py steps 6 and 7 *)

\* main.py: one audio_segments dict is handed to both components
Init ==
    /\ pc = "start"
    /\ config \in ConfigInputs
    /\ n_sections \in 0..MaxSections
    /\ audio_segments \in AudioInputs(n_sections, DurSet, TransAudioDurSet)
    /\ sync_audio = audio_segments
    /\ animation_data = None
    /\ composition = None
    /\ log = get_animation_preset_log(config.DEFAULT_ANIMATION_STYLE)
    /\ FitterIdle
    /\ FitIdle
    /\ EffectIdle
    /\ SectionIdle
    /\ TransitionIdle
    /\ EncoderIdle
    /\ DriverIdle
    /\ CatalogIdle

\* the two components called by any caller: the compositor is handed an
\* audio_segments dict of its own
InitCallers ==
    /\ pc = "start"
    /\ config \in CallerConfigInputs
    /\ n_sections \in 0..MaxSections
    /\ audio_segments \in AudioInputs(n_sections, CallerAnimDurSet, {})
    /\ sync_audio \in AudioInputs(n_sections, CallerSyncDurSet, CallerTransDurSet)
    /\ animation_data = None
    /\ composition = None
    /\ log = get_animation_preset_log(config.DEFAULT_ANIMATION_STYLE)
    /\ FitterIdle
    /\ FitIdle
    /\ EffectIdle
    /\ SectionIdle
    /\ TransitionIdle
    /\ EncoderIdle
    /\ DriverIdle
    /\ CatalogIdle

\* animation_engine.create_animations(visuals, content_structure, audio_segments)
CreateAnimations ==
    /\ pc = "start"
    /\ animation_data' = create_animations(n_sections, audio_segments, config)
    /\ log' = log \cup AnimateSectionsLog(n_sections, audio_segments.sections)
    /\ pc' = "animated"
    /\ UNCHANGED <<config, n_sections, audio_segments, sync_audio, composition>>
    /\ UNCHANGED <<fitter_vars, fit_vars, effect_vars>>
    /\ UNCHANGED section_vars
    /\ UNCHANGED transition_vars
    /\ UNCHANGED encoder_vars
    /\ UNCHANGED driver_vars
    /\ UNCHANGED catalog_vars

\* video_compositor.sync_audio_with_visuals(animations, audio_segments)
SyncAudioWithVisuals ==
    /\ pc = "animated"
    /\ composition' = sync_audio_with_visuals(animation_data, sync_audio, config)
    /\ log' = log \cup SegmentCompositionsLog(animation_data.sections, sync_audio.sections)
    /\ pc' = "composed"
    /\ UNCHANGED <<config, n_sections, audio_segments, sync_audio, animation_data>>
    /\ UNCHANGED <<fitter_vars, fit_vars, effect_vars>>
    /\ UNCHANGED section_vars
    /\ UNCHANGED transition_vars
    /\ UNCHANGED encoder_vars
    /\ UNCHANGED driver_vars
    /\ UNCHANGED catalog_vars

Next == CreateAnimations \/ SyncAudioWithVisuals

Spec == Init /\ [][Next]_vars

SpecCallers == InitCallers /\ [][Next]_vars

----------------------------------------------------------------------------
(* main(): the pipeline driver *)

DriverArgInputs ==
    [openai_key      : BOOLEAN,
     elevenlabs_key  : BOOLEAN,
     input_exists    : BOOLEAN,
     output          : {"", "out.mp4"},
     output_writable : BOOLEAN]

\* the exceptions a step raises
StageErrors == {"ValueError", "OSError"}

InitDriver ==
    /\ PipelineIdle
    /\ FitterIdle
    /\ FitIdle
    /\ EffectIdle
    /\ SectionIdle
    /\ TransitionIdle
    /\ EncoderIdle
    /\ drv_args \in DriverArgInputs
    /\ drv_pc = "start"
    /\ drv_output = None
    /\ drv_ran = <<>>
    /\ exit_code = None
    /\ CatalogIdle

\* main(): the checks before the pipeline starts
ValidateArguments ==
    /\ drv_pc = "start"
    /\ IF validate_arguments(drv_args) # ""
       THEN /\ drv_pc' = "returned"
            /\ exit_code' = 1
            /\ drv_output' = drv_output
       ELSE /\ drv_pc' = "running"
            /\ exit_code' = exit_code
            /\ drv_output' = output_path(drv_args)
    /\ UNCHANGED <<drv_args, drv_ran>>
    /\ UNCHANGED <<pipeline_vars, fitter_vars, fit_vars, effect_vars, section_vars,
                   transition_vars, encoder_vars>>
    /\ UNCHANGED catalog_vars

\* the next call of the try block returns
StageReturns ==
    /\ drv_pc = "running"
    /\ Len(drv_ran) < Len(StageOrder)
    /\ drv_ran' = Append(drv_ran, [stage |-> next_stage(drv_ran), raised |-> ""])
    /\ UNCHANGED <<drv_args, drv_pc, drv_output, exit_code>>
    /\ UNCHANGED <<pipeline_vars, fitter_vars, fit_vars, effect_vars, section_vars,
                   transition_vars, encoder_vars>>
    /\ UNCHANGED catalog_vars

\* the next call of the try block raises
StageRaises ==
    /\ drv_pc = "running"
    /\ Len(drv_ran) < Len(StageOrder)
    /\ \E exc \in StageErrors :
          \E r \in {on_exception(drv_ran, next_stage(drv_ran), exc)} :
              /\ drv_ran' = r.ran
              /\ exit_code' = r.exit_code
    /\ drv_pc' = "returned"
    /\ UNCHANGED <<drv_args, drv_output>>
    /\ UNCHANGED <<pipeline_vars, fitter_vars, fit_vars, effect_vars, section_vars,
                   transition_vars, encoder_vars>>
    /\ UNCHANGED catalog_vars

\* return 0
ReturnSuccess ==
    /\ drv_pc = "running"
    /\ Len(drv_ran) = Len(StageOrder)
    /\ drv_pc' = "returned"
    /\ exit_code' = 0
    /\ UNCHANGED <<drv_args, drv_output, drv_ran>>
    /\ UNCHANGED <<pipeline_vars, fitter_vars, fit_vars, effect_vars, section_vars,
                   transition_vars, encoder_vars>>
    /\ UNCHANGED catalog_vars

NextDriver == ValidateArguments \/ StageReturns \/ StageRaises \/ ReturnSuccess

SpecDriver == InitDriver /\ [][NextDriver]_vars

----------------------------------------------------------------------------
(* The composition handed to the encoder: main.py steps 6 to 8 *)

\* narrations of 0 s and 0.5 s for the engine, of 0 s, 0.3 s and 0.7 s for the
\* compositor, transition narrations of 0.5 s and 2.0 s; 1 and 2 fps
ComposedAnimDurSet == {0, 5}

ComposedSyncDurSet == {0, 3, 7}

ComposedConfigInputs ==
    [DEFAULT_ANIMATION_STYLE : {"standard", "dynamic"},
     ANIMATION_COMPLEXITY    : {"medium"},
     OUTPUT_FPS              : {1, 2}]

\* the "path" of an audio record: one file per section or transition narrated
AudioPathOf(e) ==
    IF IsTransition(e) THEN <<"transition", e.audio.section_idx>>
    ELSE <<"section", e.audio.section_idx>>

\* the element as _create_clip_from_element reads it: the frame paths joined
\* with their directory, the audio record's path, the element's duration
EncoderElementOf(e) ==
    [animation |-> [frame_paths |->
                       [i \in 1..Len(e.animation.frame_paths) |->
                           <<e.animation.frames_dir, e.animation.frame_paths[i]>>]],
     audio     |-> IF e.audio = None THEN None ELSE [path |-> AudioPathOf(e)],
     duration  |-> e.duration]

\* the files on disk when the encoder runs: the frames create_animations wrote
\* (only the first of each directory when frames were lost), and one audio
\* file per record, as long as the record says
ComposedFiles(animations, audio, lost) ==
    LET records == animations.sections \o animations.transitions
    IN  [frames |-> UNION {{<<records[r].frames_dir, records[r].frame_paths[i]>> :
                              i \in IF lost THEN 1..Min(1, Len(records[r].frame_paths))
                                    ELSE 1..Len(records[r].frame_paths)} :
                           r \in 1..Len(records)},
         audio  |-> [p \in {<<"section", audio.sections[i].section_idx>> :
                               i \in 1..Len(audio.sections)}
                           \cup {<<"transition", audio.transitions[i].section_idx>> :
                                   i \in 1..Len(audio.transitions)}
                       |-> IF p[1] = "section"
                           THEN FindAudio(audio.sections, p[2]).duration
                           ELSE FindAudio(audio.transitions, p[2]).duration]]

InitComposed ==
    /\ pc = "start"
    /\ config \in ComposedConfigInputs
    /\ n_sections \in 0..MaxComposed
    /\ audio_segments \in AudioInputs(n_sections, ComposedAnimDurSet, {})
    /\ sync_audio \in AudioInputs(n_sections, ComposedSyncDurSet, CallerTransDurSet)
    /\ animation_data = None
    /\ composition = None
    /\ log = get_animation_preset_log(config.DEFAULT_ANIMATION_STYLE)
    /\ FitterIdle
    /\ FitIdle
    /\ EffectIdle
    /\ SectionIdle
    /\ TransitionIdle
    /\ EncoderIdle
    /\ DriverIdle
    /\ CatalogIdle

\* the clip loop of encode_video on the composition the compositor returned
EncodeComposition ==
    /\ pc = "composed"
    /\ \E lost \in BOOLEAN :
          /\ enc_args' = [composition |-> composition, lost |-> lost]
          /\ enc_result' =
                [clips |-> [k \in 1..Len(composition.elements) |->
                     create_clip_from_element(
                         EncoderElementOf(composition.elements[k]), k, config.OUTPUT_FPS,
                         ComposedFiles(animation_data, sync_audio, lost),
                         [step |-> "none", at |-> 0]).clip]]
    /\ pc' = "encoded"
    /\ UNCHANGED <<config, n_sections, audio_segments, sync_audio, animation_data,
                   composition, log>>
    /\ UNCHANGED <<fitter_vars, fit_vars, effect_vars, section_vars, transition_vars,
                   driver_vars, catalog_vars>>

NextComposed == CreateAnimations \/ SyncAudioWithVisuals \/ EncodeComposition

SpecComposed == InitComposed /\ [][NextComposed]_vars

----------------------------------------------------------------------------
(* The preset catalog and the holders of the dictionaries it hands out *)

\* the style names callers ask for
AskedStyles == {"standard", "academic", "foo"}

InitCatalog ==
    /\ PipelineIdle
    /\ FitterIdle
    /\ FitIdle
    /\ EffectIdle
    /\ SectionIdle
    /\ TransitionIdle
    /\ EncoderIdle
    /\ DriverIdle
    /\ preset_catalog = LoadedPresets
    /\ scheme_heap = LoadedSchemes
    /\ handed = <<>>

\* get_animation_preset(style_name)
GetAnimationPreset ==
    /\ preset_catalog # None
    /\ Len(handed) < MaxPresets
    /\ \E style_name \in AskedStyles :
          handed' = Append(handed, preset_copy(preset_catalog, style_name))
    /\ UNCHANGED <<preset_catalog, scheme_heap>>
    /\ UNCHANGED <<pipeline_vars, fitter_vars, fit_vars, effect_vars, section_vars,
                   transition_vars, encoder_vars, driver_vars>>

\* AnimationEngine.apply_animation_style on an engine that holds handed[i] as
\* its animation_preset, with ANIMATION_COMPLEXITY "high"
ApplyAnimationStyle ==
    /\ preset_catalog # None
    /\ Len(handed) < MaxPresets
    /\ \E i \in 1..Len(handed) :
          handed' = Append(handed, [dict_copy(handed[i]) EXCEPT !.complexity = "high"])
    /\ UNCHANGED <<preset_catalog, scheme_heap>>
    /\ UNCHANGED <<pipeline_vars, fitter_vars, fit_vars, effect_vars, section_vars,
                   transition_vars, encoder_vars, driver_vars>>

\* a holder assigns to a key of its dictionary: d["transition_type"] = "wipe"
MutatePreset ==
    /\ preset_catalog # None
    /\ \E i \in 1..Len(handed) :
          /\ handed[i].transition_type # "wipe"
          /\ handed' = [handed EXCEPT ![i].transition_type = "wipe"]
    /\ UNCHANGED <<preset_catalog, scheme_heap>>
    /\ UNCHANGED <<pipeline_vars, fitter_vars, fit_vars, effect_vars, section_vars,
                   transition_vars, encoder_vars, driver_vars>>

\* a holder assigns inside the nested dictionary:
\* d["color_scheme"]["background"] = (0, 0, 0)
MutateColorScheme ==
    /\ preset_catalog # None
    /\ \E i \in 1..Len(handed) :
          /\ scheme_heap[handed[i].color_scheme].background # <<0, 0, 0>>
          /\ scheme_heap' = [scheme_heap EXCEPT
                                ![handed[i].color_scheme].background = <<0, 0, 0>>]
    /\ UNCHANGED <<preset_catalog, handed>>
    /\ UNCHANGED <<pipeline_vars, fitter_vars, fit_vars, effect_vars, section_vars,
                   transition_vars, encoder_vars, driver_vars>>

NextCatalog ==
    GetAnimationPreset \/ ApplyAnimationStyle \/ MutatePreset \/ MutateColorScheme

SpecCatalog == InitCatalog /\ [][NextCatalog]_vars

----------------------------------------------------------------------------
(* _create_clip_from_element on one element *)

\* the files on disk: two frames, and narrations of 0.3 s, 0.5 s and 0.7 s
ClipFiles ==
    [frames |-> {"f0.png", "f1.png"},
     audio  |-> ("s.wav" :> 3) @@ ("e.wav" :> 5) @@ ("a.wav" :> 7)]

\* elements with an explicit duration of 0.5 s or 1.0 s or none, at 1, 4 and
\* 30 frames per second
ClipElements ==
    [animation : [frame_paths : {<<"f0.png", "f1.png">>, <<"f0.png", "gone.png">>,
                                 <<"gone.png">>}],
     audio     : {None, [path |-> "s.wav"], [path |-> "e.wav"], [path |-> "a.wav"],
                  [path |-> "lost.wav"]},
     duration  : {0, 5, 10}]

ClipFaults ==
    [step : {"none", "ImageSequenceClip", "set_duration", "AudioFileClip", "set_audio"},
     at   : {1}]

InitClip ==
    /\ PipelineIdle
    /\ FitterIdle
    /\ FitIdle
    /\ EffectIdle
    /\ SectionIdle
    /\ TransitionIdle
    /\ enc_args \in [element : ClipElements, fault : ClipFaults, fps : {1, 4, 30}]
    /\ enc_result = None
    /\ DriverIdle
    /\ CatalogIdle

\* self._create_clip_from_element(element, settings)
CreateClipFromElement ==
    /\ enc_result = None
    /\ "element" \in DOMAIN enc_args
    /\ enc_result' = create_clip_from_element(enc_args.element, 1, enc_args.fps,
                                              ClipFiles, enc_args.fault)
    /\ UNCHANGED <<enc_args, pipeline_vars, fitter_vars, fit_vars, effect_vars,
                   section_vars, transition_vars>>
    /\ UNCHANGED driver_vars
    /\ UNCHANGED catalog_vars

NextClip == CreateClipFromElement

SpecClip == InitClip /\ [][NextClip]_vars

----------------------------------------------------------------------------
(* The image cache and fitter of one engine, and the holder of its canvases *)

InitFitter ==
    /\ PipelineIdle
    /\ FitIdle
    /\ EffectIdle
    /\ disk \in [Paths -> FitterSrcSizes]
    /\ engine = NewEngine
    /\ history = <<>>
    /\ SectionIdle
    /\ TransitionIdle
    /\ EncoderIdle
    /\ DriverIdle
    /\ CatalogIdle

Calls == SelectSeq(history, LAMBDA ev : ev.event = "call")

\* self._get_fitted_canvas(path, target_size)
GetFittedCanvas ==
    /\ Len(Calls) < MaxCalls
    /\ \E path \in Paths, target \in FitterTargets :
          LET r == get_fitted_canvas(engine, disk, path, target)
          IN  /\ engine' = r.engine
              /\ history' = Append(history,
                    [event  |-> "call",
                     key    |-> <<path, target[1], target[2]>>,
                     raised |-> r.raised,
                     id     |-> r.id,
                     image  |-> IF r.raised = "" THEN r.engine.heap[r.id] ELSE None])
    /\ UNCHANGED <<disk, pipeline_vars, fit_vars, effect_vars>>
    /\ UNCHANGED section_vars
    /\ UNCHANGED transition_vars
    /\ UNCHANGED encoder_vars
    /\ UNCHANGED driver_vars
    /\ UNCHANGED catalog_vars

\* the caller draws on a canvas it was handed (frame.paste, img.putpixel, ...)
MutateReturned ==
    /\ \E i \in 1..Len(history) :
          /\ history[i].event = "call"
          /\ history[i].raised = ""
          /\ engine.heap[history[i].id].tint = 0
          /\ engine' = [engine EXCEPT !.heap[history[i].id].tint = 1]
          /\ history' = Append(history, [event |-> "mutate", id |-> history[i].id])
    /\ UNCHANGED <<disk, pipeline_vars, fit_vars, effect_vars>>
    /\ UNCHANGED section_vars
    /\ UNCHANGED transition_vars
    /\ UNCHANGED encoder_vars
    /\ UNCHANGED driver_vars
    /\ UNCHANGED catalog_vars

NextFitter == GetFittedCanvas \/ MutateReturned

SpecFitter == InitFitter /\ [][NextFitter]_vars

----------------------------------------------------------------------------
(* _resize_image_to_fit on every source and target size *)

InitFit ==
    /\ PipelineIdle
    /\ FitterIdle
    /\ EffectIdle
    /\ fit_args \in [src : (1..MaxDim) \X (1..MaxDim), target : (1..MaxDim) \X (1..MaxDim)]
    /\ fit_result = None
    /\ SectionIdle
    /\ TransitionIdle
    /\ EncoderIdle
    /\ DriverIdle
    /\ CatalogIdle

ResizeImageToFit ==
    /\ fit_result = None
    /\ fit_result' = resize_image_to_fit(Decode("a.png", fit_args.src), fit_args.target)
    /\ UNCHANGED <<fit_args, pipeline_vars, fitter_vars, effect_vars>>
    /\ UNCHANGED section_vars
    /\ UNCHANGED transition_vars
    /\ UNCHANGED encoder_vars
    /\ UNCHANGED driver_vars
    /\ UNCHANGED catalog_vars

NextFit == ResizeImageToFit

SpecFit == InitFit /\ [][NextFit]_vars

----------------------------------------------------------------------------
(* _apply_animation_effects on the frames of a section *)

EffectConfigInputs ==
    [DEFAULT_ANIMATION_STYLE : StyleNames \cup {"foo"},
     ANIMATION_COMPLEXITY    : {"", "low", "medium", "high"},
     OUTPUT_FPS              : {30}]

InitEffects ==
    /\ PipelineIdle
    /\ FitterIdle
    /\ FitIdle
    /\ eff_args \in { [config |-> c, frame_idx |-> i, frame_count |-> n] :
                        c \in EffectConfigInputs,
                        <<i, n>> \in { x \in (0..(MaxFrames - 1)) \X (1..MaxFrames) :
                                         x[1] < x[2] } }
    /\ eff_result = None
    /\ SectionIdle
    /\ TransitionIdle
    /\ EncoderIdle
    /\ DriverIdle
    /\ CatalogIdle

\* img = self._apply_animation_effects(img, time_pos, style_params)
ApplyAnimationEffects ==
    /\ eff_result = None
    /\ eff_result' = apply_animation_effects(
                         BaseFrame,
                         TimePos(eff_args.frame_idx, eff_args.frame_count),
                         apply_animation_style(eff_args.config))
    /\ UNCHANGED <<eff_args, pipeline_vars, fitter_vars, fit_vars>>
    /\ UNCHANGED section_vars
    /\ UNCHANGED transition_vars
    /\ UNCHANGED encoder_vars
    /\ UNCHANGED driver_vars
    /\ UNCHANGED catalog_vars

NextEffects == ApplyAnimationEffects

SpecEffects == InitEffects /\ [][NextEffects]_vars

----------------------------------------------------------------------------
(* One engine constructed and one section animated by it *)

\* the files of the section model: a 4x2 image and a file that is not an image
SectionDisk == ("a.png" :> <<4, 2>>) @@ ("bad.png" :> Undecodable)

\* the "path" of a slide or page: a good file, a path with no file, a file
\* that cannot be decoded, and no path at all
SectionPaths == {"a.png", "missing.png", "bad.png", ""}

VisualLists == {<<>>} \cup {<<[path |-> p]>> : p \in SectionPaths}

VisualInputs ==
    {[slides |-> s] : s \in VisualLists}
        \cup {[pages |-> s] : s \in VisualLists}
        \cup {[metadata |-> <<>>]}

SectionConfigInputs ==
    [DEFAULT_ANIMATION_STYLE : StyleNames \cup {"foo"},
     ANIMATION_COMPLEXITY    : {"", "low", "medium", "high"},
     OUTPUT_FPS              : {1, 2},
     OUTPUT_RESOLUTION       : {<<3, 2>>}]

\* narration of 0 s, 2.0 s, 3.0 s and 4.0 s; the frames whose effects fail
SectionArgInputs ==
    [section_idx   : {0, 1},
     visuals       : VisualInputs,
     audio_segment : [section_idx : {0}, duration : {0, 20, 30, 40}],
     faults        : SUBSET {0, 1}]

InitSection ==
    /\ pc = "new"
    /\ config \in SectionConfigInputs
    /\ n_sections = 0
    /\ audio_segments = None
    /\ sync_audio = None
    /\ animation_data = None
    /\ composition = None
    /\ log = {}
    /\ disk = SectionDisk
    /\ engine = NewEngine
    /\ history = <<>>
    /\ FitIdle
    /\ EffectIdle
    /\ sec_args \in SectionArgInputs
    /\ animation_preset = None
    /\ frame_files = <<>>
    /\ section_animation = None
    /\ TransitionIdle
    /\ EncoderIdle
    /\ DriverIdle
    /\ CatalogIdle

\* AnimationEngine(config)
NewAnimationEngine ==
    /\ pc = "new"
    /\ animation_preset' = get_animation_preset(config.DEFAULT_ANIMATION_STYLE)
    /\ log' = log \cup get_animation_preset_log(config.DEFAULT_ANIMATION_STYLE)
    /\ engine' = NewEngine
    /\ pc' = "constructed"
    /\ UNCHANGED <<config, n_sections, audio_segments, sync_audio, animation_data,
                   composition, disk, history, sec_args, frame_files, section_animation>>
    /\ UNCHANGED <<fit_vars, effect_vars>>
    /\ UNCHANGED transition_vars
    /\ UNCHANGED encoder_vars
    /\ UNCHANGED driver_vars
    /\ UNCHANGED catalog_vars

\* one turn of the section loop of create_animations
AnimateSection ==
    /\ pc = "constructed"
    /\ \E r \in {animate_section(engine, disk, config, sec_args)} :
           /\ engine' = r.engine
           /\ history' = history \o r.calls
           /\ frame_files' = r.files
           /\ log' = log \cup r.log
           /\ section_animation' = r.animation
    /\ pc' = "section_done"
    /\ UNCHANGED <<config, n_sections, audio_segments, sync_audio, animation_data,
                   composition, disk, sec_args, animation_preset>>
    /\ UNCHANGED <<fit_vars, effect_vars>>
    /\ UNCHANGED transition_vars
    /\ UNCHANGED encoder_vars
    /\ UNCHANGED driver_vars
    /\ UNCHANGED catalog_vars

NextSection == NewAnimationEngine \/ AnimateSection

SpecSection == InitSection /\ [][NextSection]_vars

----------------------------------------------------------------------------
(* Transitions synthesized for a caller's style parameters *)

\* largest frame_count handed to create_transition_frames
MaxTransitionFrames == 4

\* an animated section with m frames
TransitionSegment(section_idx, m) ==
    [section_idx |-> section_idx,
     frames_dir  |-> <<"section", section_idx + 1>>,
     frame_paths |-> Range(m)]

\* lists of one to three animated sections, each with no frame or two frames
TransitionAnimationLists ==
    UNION { { [i \in 1..n |-> TransitionSegment(i - 1, m[i])] : m \in [1..n -> {0, 2}] } :
            n \in 1..3 }

TransitionArgInputs ==
    [animations   : TransitionAnimationLists,
     style_params : [transition_type     : {"fade", "slide", "zoom", "wipe"},
                     transition_duration : {8, 10, 12}],
     frame_count  : 0..MaxTransitionFrames,
     cfg          : [OUTPUT_FPS : {1, 2, 3}, OUTPUT_RESOLUTION : {<<3, 2>>}]]

InitTransitions ==
    /\ PipelineIdle
    /\ FitterIdle
    /\ FitIdle
    /\ EffectIdle
    /\ SectionIdle
    /\ trans_args \in TransitionArgInputs
    /\ trans_result = None
    /\ EncoderIdle
    /\ DriverIdle
    /\ CatalogIdle

\* AnimationEngine.generate_slide_transitions(animations, style_params)
GenerateSlideTransitions ==
    /\ trans_result = None
    /\ LET a == trans_args.animations
       IN  trans_result' =
               [op          |-> "generate_slide_transitions",
                raised      |-> "",
                transitions |-> [i \in 1..(Len(a) - 1) |->
                                    create_transition_animation(
                                        a[i], a[i + 1], trans_args.style_params,
                                        trans_args.cfg)],
                frames      |-> [i \in 1..(Len(a) - 1) |->
                                    create_transition_animation_frames(
                                        a[i], a[i + 1], trans_args.style_params,
                                        trans_args.cfg)]]
    /\ log' = log \cup (IF Len(trans_args.animations) > 1
                        THEN create_transition_animation_log(trans_args.style_params)
                        ELSE {})
    /\ UNCHANGED <<pc, config, n_sections, audio_segments, sync_audio, animation_data,
                   composition, trans_args>>
    /\ UNCHANGED <<fitter_vars, fit_vars, effect_vars, section_vars>>
    /\ UNCHANGED encoder_vars
    /\ UNCHANGED driver_vars
    /\ UNCHANGED catalog_vars

\* TransitionEffects.create_transition_frames(from_img, to_img, transition_type,
\* frame_count, output_dir) on the boundary frames of the first and last section
CreateTransitionFrames ==
    /\ trans_result = None
    /\ LET a == trans_args.animations
       IN  trans_result' =
               [op          |-> "create_transition_frames",
                raised      |-> "",
                transitions |-> <<>>,
                frames      |-> <<create_transition_frames(
                                      LastFrame(a[1]), FirstFrame(a[Len(a)]),
                                      trans_args.style_params.transition_type,
                                      trans_args.frame_count,
                                      trans_args.cfg.OUTPUT_RESOLUTION[1])>>]
    /\ log' = log \cup create_transition_frames_log(trans_args.style_params.transition_type)
    /\ UNCHANGED <<pc, config, n_sections, audio_segments, sync_audio, animation_data,
                   composition, trans_args>>
    /\ UNCHANGED <<fitter_vars, fit_vars, effect_vars, section_vars>>
    /\ UNCHANGED encoder_vars
    /\ UNCHANGED driver_vars
    /\ UNCHANGED catalog_vars

NextTransitions == GenerateSlideTransitions \/ CreateTransitionFrames

SpecTransitions == InitTransitions /\ [][NextTransitions]_vars

----------------------------------------------------------------------------
(* The encoder on a composition *)

\* largest number of elements of a composition handed to encode_video
MaxElements == 2

\* the files on disk: two frames and one narration of 0.7 s
EncoderFiles == [frames |-> {"f0.png", "f1.png"}, audio |-> ("a.wav" :> 7)]

\* an element with both frames on disk, with one of its two frames on disk,
\* with no frame on disk, and with no frame at all; with no audio, a
\* narration on disk, and a narration that is not on disk
EncoderElements ==
    [animation : [frame_paths : {<<"f0.png", "f1.png">>, <<"f0.png", "gone.png">>,
                                 <<"gone.png">>, <<>>}],
     audio     : {None, [path |-> "a.wav"], [path |-> "lost.wav"]},
     duration  : {0, 5}]

EncoderCompositions ==
    {[type |-> "list"], [type |-> "dict"]}
        \cup { [type |-> "dict", elements |-> es] :
                 es \in UNION { [1..n -> EncoderElements] : n \in 0..MaxElements } }

EncoderFaults ==
    {[step |-> "none", at |-> 0]}
        \cup [step : {"ImageSequenceClip", "set_duration", "AudioFileClip", "set_audio",
                      "resize"},
              at   : 1..MaxElements]
        \cup [step : {"concatenate", "makedirs", "write_videofile",
                      "write_videofile_midway"},
              at   : {0}]

InitEncoder ==
    /\ PipelineIdle
    /\ FitterIdle
    /\ FitIdle
    /\ EffectIdle
    /\ SectionIdle
    /\ TransitionIdle
    /\ enc_args \in [composition : EncoderCompositions,
                     fault       : EncoderFaults,
                     fps         : {30}]
    /\ enc_result = None
    /\ DriverIdle
    /\ CatalogIdle

\* video_encoder.encode_video(composition, output_path)
EncodeVideo ==
    /\ enc_result = None
    /\ enc_result' = encode_video(enc_args.composition, "out.mp4", enc_args.fps,
                                  EncoderFiles, enc_args.fault)
    /\ UNCHANGED <<enc_args, pipeline_vars, fitter_vars, fit_vars, effect_vars,
                   section_vars, transition_vars>>
    /\ UNCHANGED driver_vars
    /\ UNCHANGED catalog_vars

NextEncoder == EncodeVideo

SpecEncoder == InitEncoder /\ [][NextEncoder]_vars

----------------------------------------------------------------------------
(* Properties *)

Abs(x) == IF x >= 0 THEN x ELSE -x

\* r is the integer nearest to num/den (den > 0), the even one of the two when
\* num/den lies halfway between two integers
IsNearest(r, num, den) ==
    /\ 2 * Abs(den * r - num) <= den
    /\ (2 * Abs(den * r - num) = den => r % 2 = 0)

\* n = max(1, round(num/den))
IsRoundFloor1(n, num, den) ==
    \E r \in ((num \div den) - 1)..((num \div den) + 1) :
        IsNearest(r, num, den) /\ n = (IF r >= 1 THEN r ELSE 1)

Elements == composition.elements

\* C1: a Section Animation Record made from narration duration d at frame rate
\* f holds exactly max(1, round(d*f)) frame paths, and exactly 1 when d <= 0.
C1_SectionFrameCount ==
    animation_data # None =>
        \A i \in 1..Len(animation_data.sections) :
            LET rec == animation_data.sections[i]
                d   == FindAudio(audio_segments.sections, rec.section_idx).duration
                x10 == d * config.OUTPUT_FPS
                N   == Len(rec.frame_paths)
            IN  /\ IsRoundFloor1(N, x10, 10)
                /\ (d <= 0 => N = 1)
                /\ rec.frame_count = N

\* a run that animated a section of non-positive duration (1 frame) and, at
\* 1 fps, a section of 2.5 s (2 frames: the tie goes to the even count)
C1_Witness ==
    /\ animation_data # None
    /\ config.OUTPUT_FPS = 1
    /\ \E i, j \in 1..Len(animation_data.sections) :
          /\ animation_data.sections[i].duration <= 0
          /\ Len(animation_data.sections[i].frame_paths) = 1
          /\ animation_data.sections[j].duration = 25
          /\ Len(animation_data.sections[j].frame_paths) = 2

\* C2: a transition of preset duration D at frame rate fps holds round(D*fps)
\* frame paths, and never fewer than 1.
C2_TransitionFrameCount ==
    animation_data # None =>
        \A i \in 1..Len(animation_data.transitions) :
            LET rec == animation_data.transitions[i]
                x10 == rec.duration * config.OUTPUT_FPS
                N   == Len(rec.frame_paths)
            IN  /\ IsNearest(N, x10, 10)
                /\ N >= 1

\* C3: every composition element lasts max(visual duration, matched audio
\* duration); a transition without matched audio keeps its visual duration.
C3_DurationReconciliation ==
    composition # None =>
        \A i \in 1..Len(Elements) :
            LET e == Elements[i]
                v == e.animation.duration
            IN  IF IsSegment(e)
                THEN LET a == FindAudio(sync_audio.sections, e.animation.section_idx).duration
                     IN  /\ e.duration >= v /\ e.duration >= a
                         /\ e.duration \in {v, a}
                ELSE LET audio == FindAudio(sync_audio.transitions,
                                            e.animation.from_section_idx)
                     IN  IF audio = None
                         THEN e.duration = v
                         ELSE /\ e.duration >= v /\ e.duration >= audio.duration
                              /\ e.duration \in {v, audio.duration}

\* a composition with a section whose audio (0.7 s) outlasts its visual
\* (0.5 s), a section whose visual outlasts its audio (0.3 s), a silent
\* transition and a transition whose audio (2.0 s) outlasts it
C3_Witness ==
    /\ composition # None
    /\ \E i, j, k, l \in 1..Len(Elements) :
          /\ IsSegment(Elements[i]) /\ Elements[i].animation.duration = 5
          /\ Elements[i].audio.duration = 7 /\ Elements[i].duration = 7
          /\ IsSegment(Elements[j]) /\ Elements[j].audio.duration = 3
          /\ Elements[j].duration = 5
          /\ IsTransition(Elements[k]) /\ Elements[k].audio = None
          /\ Elements[k].duration = Elements[k].animation.duration
          /\ IsTransition(Elements[l]) /\ Elements[l].audio # None
          /\ Elements[l].duration = 20

\* C4: in the final composition every transition element stands right after
\* the section element whose index is its from_section_idx and right before
\* the section element whose index is its to_section_idx.
C4_TransitionsLinkNeighbours ==
    composition # None =>
        \A i \in 1..Len(Elements) :
            IsTransition(Elements[i]) =>
                /\ i > 1 /\ i < Len(Elements)
                /\ IsSegment(Elements[i - 1])
                /\ Elements[i - 1].section_idx = Elements[i].from_section_idx
                /\ IsSegment(Elements[i + 1])
                /\ Elements[i + 1].section_idx = Elements[i].to_section_idx

\* the index an element is ordered by
ElementIdx(e) == IF IsSegment(e) THEN e.section_idx ELSE e.transition_idx

\* C5: the element list starts with a section, no two adjacent elements are
\* of the same kind, and the sections and the transitions each appear in
\* ascending index order.
C5_StrictAlternation ==
    composition # None =>
        /\ (Elements # <<>> => IsSegment(Elements[1]))
        /\ \A i \in 1..(Len(Elements) - 1) :
              IsSegment(Elements[i]) # IsSegment(Elements[i + 1])
        /\ \A i, j \in 1..Len(Elements) :
              (i < j /\ IsSegment(Elements[i]) = IsSegment(Elements[j]))
                  => ElementIdx(Elements[i]) <= ElementIdx(Elements[j])

\* the inputs of the scenario: 3 sections, each with 10 s of narration, 30 fps,
\* the standard style
Scenario ==
    /\ n_sections = 3
    /\ config.OUTPUT_FPS = 30
    /\ config.DEFAULT_ANIMATION_STYLE = "standard"
    /\ Len(audio_segments.sections) = 3
    /\ \A i \in 1..3 : audio_segments.sections[i].duration = 100

\* 3 sections of 300 frames, 2 transitions of 30 frames, 32.0 s in total
ScenarioResult ==
    /\ Len(animation_data.sections) = 3
    /\ \A i \in 1..3 : Len(animation_data.sections[i].frame_paths) = 300
    /\ Len(animation_data.transitions) = 2
    /\ \A i \in 1..2 : Len(animation_data.transitions[i].frame_paths) = 30
    /\ composition.segment_count = 3
    /\ composition.transition_count = 2
    /\ composition.total_duration = 320

\* C6 as stated: the scenario yields 3 sections of 300 frames, 2 transitions
\* of 30 frames and a total duration of 32.0 s.
C6_ScenarioAsStated ==
    (pc = "composed" /\ Scenario) => ScenarioResult

\* C6: the scenario, with no transition narration longer than the 1.0 s
\* transition, yields 3 sections of 300 frames, 2 transitions of 30 frames
\* and a total duration of 32.0 s.
C6_Scenario ==
    (/\ pc = "composed"
     /\ Scenario
     /\ \A i \in 1..Len(audio_segments.transitions) :
           audio_segments.transitions[i].duration <= 10)
        => ScenarioResult

C6_Witness ==
    /\ pc = "composed"
    /\ Scenario
    /\ audio_segments.transitions = <<>>
    /\ ScenarioResult

HasWarning(what, idx) == [level |-> "warning", what |-> what, idx |-> idx] \in log

HasError(what, idx) == [level |-> "error", what |-> what, idx |-> idx] \in log

\* C7: a section without an audio record of its index is left out of the
\* composition with a warning, and nothing is raised; a transition without a
\* matching audio record is still in the composition, its audio reference null.
C7_AudioMatchingAsymmetry ==
    /\ animation_data # None =>
          \A idx \in 0..(n_sections - 1) :
              FindAudio(audio_segments.sections, idx) = None =>
                  /\ \A i \in 1..Len(animation_data.sections) :
                        animation_data.sections[i].section_idx # idx
                  /\ HasWarning("no_audio_segment", idx)
    /\ composition # None =>
          /\ "elements" \in DOMAIN composition
          /\ \A i \in 1..Len(animation_data.sections) :
                FindAudio(sync_audio.sections,
                          animation_data.sections[i].section_idx) = None =>
                    /\ \A k \in 1..Len(Elements) :
                          Elements[k].animation # animation_data.sections[i]
                    /\ HasWarning("no_audio", i - 1)
          /\ \A j \in 1..Len(animation_data.transitions) :
                \E k \in 1..Len(Elements) :
                    /\ IsTransition(Elements[k])
                    /\ Elements[k].animation = animation_data.transitions[j]
                    /\ (FindAudio(sync_audio.transitions,
                                  animation_data.transitions[j].from_section_idx) = None
                            => Elements[k].audio = None)

\* a composition made from animations of which one section has no audio
\* record (it is left out) and one transition has none (it is kept, silent)
C7_Witness ==
    /\ composition # None
    /\ \E i \in 1..Len(animation_data.sections) :
          /\ FindAudio(sync_audio.sections, animation_data.sections[i].section_idx) = None
          /\ \A k \in 1..Len(Elements) : Elements[k].animation # animation_data.sections[i]
    /\ \E k \in 1..Len(Elements) :
          IsTransition(Elements[k]) /\ Elements[k].audio = None

CallOk(i) == history[i].event = "call" /\ history[i].raised = ""

CachedIds ==
    {engine.fitted_cache[k] : k \in DOMAIN engine.fitted_cache}
        \cup {engine.loaded_cache[q] : q \in DOMAIN engine.loaded_cache}

\* C8: two _get_fitted_canvas calls on one engine with the same (path,
\* target_size) return pixel-identical canvases, whatever was drawn on the
\* canvases returned before, and the cached original is never handed out.
C8_FittedCanvasIdempotent ==
    /\ \A i, j \in 1..Len(history) :
          (i < j /\ CallOk(i) /\ CallOk(j) /\ history[i].key = history[j].key)
              => history[i].image = history[j].image
    /\ \A i \in 1..Len(history) : CallOk(i) => history[i].id \notin CachedIds

\* a canvas was returned, its holder drew on it, and the same key was asked
\* for again
C8_Witness ==
    \E i, m, j \in 1..Len(history) :
        /\ i < m /\ m < j
        /\ CallOk(i) /\ CallOk(j) /\ history[i].key = history[j].key
        /\ history[m].event = "mutate" /\ history[m].id = history[i].id
        /\ engine.heap[history[i].id].tint = 1
        /\ engine.heap[history[j].id].tint = 0

\* C9: for positive source (sw,sh) and target (tw,th) the image is scaled by
\* min(tw/sw, th/sh) to (nw,nh) with nw <= tw, nh <= th and nw = tw or nh = th,
\* pasted at ((tw-nw)//2, (th-nh)//2) on a canvas of exactly (tw,th).
C9_Letterbox ==
    fit_result # None =>
        LET sw == fit_args.src[1]
            sh == fit_args.src[2]
            tw == fit_args.target[1]
            th == fit_args.target[2]
            byWidth == tw * sh <= th * sw     \* tw/sw <= th/sh
            num == IF byWidth THEN tw ELSE th
            den == IF byWidth THEN sw ELSE sh
        IN  /\ fit_result.raised = ""
            /\ LET c  == fit_result.canvas
                   nw == c.pixels.resized[1]
                   nh == c.pixels.resized[2]
               IN  /\ c.size = <<tw, th>>
                   /\ IsRoundFloor1(nw, sw * num, den)
                   /\ IsRoundFloor1(nh, sh * num, den)
                   /\ nw <= tw /\ nh <= th
                   /\ (nw = tw \/ nh = th)
                   /\ c.pixels.at = <<(tw - nw) \div 2, (th - nh) \div 2>>

\* a wide image fitted into a taller target: it touches the left and right
\* edges and is centred between bars above and below
C9_Witness ==
    /\ fit_result # None
    /\ fit_result.raised = ""
    /\ fit_args.src = <<4, 2>>
    /\ fit_args.target = <<6, 6>>
    /\ fit_result.canvas.pixels.resized = <<6, 3>>
    /\ fit_result.canvas.pixels.at = <<0, 1>>

\* the tier and the normalized time of the frame given effects
EffTier == apply_animation_style(eff_args.config).complexity

EffTime == TimePos(eff_args.frame_idx, eff_args.frame_count)

\* C10: in each tier the frame at t = 0 comes out with alpha 0, and every
\* frame at or after the tier's threshold (0.1 low, 0.2 medium, 0.3 high)
\* comes out as it went in: opaque, not zoomed, not offset.
C10_EffectBoundary ==
    eff_result # None =>
        LET num == EffTime[1]
            den == EffTime[2]
        IN  /\ (EffTier \in {"low", "medium", "high"} /\ num = 0)
                  => eff_result.alpha = 0
            /\ (EffTier = "low" /\ 10 * num >= 1 * den) => eff_result = BaseFrame
            /\ (EffTier = "medium" /\ 10 * num >= 2 * den) => eff_result = BaseFrame
            /\ (EffTier = "high" /\ 10 * num >= 3 * den) => eff_result = BaseFrame

\* the frame at exactly t = 0.1 (frame 2 of 21) in the low tier is unchanged
C10_Witness ==
    /\ eff_result # None
    /\ EffTier = "low"
    /\ eff_args.frame_idx = 2
    /\ eff_args.frame_count = 21
    /\ eff_result = BaseFrame

\* the tier's fade window in tenths: 0.1 (low), 0.2 (medium), 0.3 (high)
TierTenths(tier) ==
    CASE tier = "low" -> 1 [] tier = "medium" -> 2 [] tier = "high" -> 3

\* the frame frame_idx of the same section under the same style
EffectOf(frame_idx) ==
    apply_animation_effects(BaseFrame, TimePos(frame_idx, eff_args.frame_count),
                            apply_animation_style(eff_args.config))

\* the fractions p and q are equal / p is at most q (positive denominators)
FracEq(p, q) == p[1] * q[2] = q[1] * p[2]

FracLeq(p, q) == p[1] * q[2] <= q[1] * p[2]

\* inside the window alpha is floor(255 * t / T), clamped to [0, 255]
C11_Alpha ==
    (eff_result # None /\ EffTier \in {"low", "medium", "high"}
        /\ 10 * EffTime[1] < TierTenths(EffTier) * EffTime[2])
    => eff_result.alpha =
          Max(0, Min(255, (2550 * EffTime[1]) \div (TierTenths(EffTier) * EffTime[2])))

\* inside the window zoom is 0.95 + 0.05 * (t / 0.2) in the medium tier and
\* 0.90 + 0.10 * (t / 0.3) in the high tier, and the low tier does not zoom;
\* the offset is (floor(10 * (1 - t / 0.3)), floor(5 * (1 - t / 0.3))) in the
\* high tier and zero in the others
C11_ZoomOffset ==
    (eff_result # None /\ EffTier \in {"low", "medium", "high"}
        /\ 10 * EffTime[1] < TierTenths(EffTier) * EffTime[2])
    => LET num == EffTime[1]
           den == EffTime[2]
       IN  /\ EffTier = "low" =>
                 /\ FracEq(eff_result.zoom, <<1, 1>>)
                 /\ eff_result.offset = <<0, 0>>
           /\ EffTier = "medium" =>
                 /\ FracEq(eff_result.zoom, <<95 * 2 * den + 5 * 10 * num, 100 * 2 * den>>)
                 /\ eff_result.offset = <<0, 0>>
           /\ EffTier = "high" =>
                 /\ FracEq(eff_result.zoom, <<90 * 3 * den + 10 * 10 * num, 100 * 3 * den>>)
                 /\ eff_result.offset =
                       <<(10 * (3 * den - 10 * num)) \div (3 * den),
                         (5 * (3 * den - 10 * num)) \div (3 * den)>>

\* over the frames of one section inside the window, alpha and zoom do not
\* decrease and the offset does not increase
C11_Monotone ==
    (eff_result # None /\ EffTier \in {"low", "medium", "high"}
        /\ 10 * EffTime[1] < TierTenths(EffTier) * EffTime[2])
    => \A j \in 0..eff_args.frame_idx :
          /\ EffectOf(j).alpha <= eff_result.alpha
          /\ FracLeq(EffectOf(j).zoom, eff_result.zoom)
          /\ EffectOf(j).offset[1] >= eff_result.offset[1]
          /\ EffectOf(j).offset[2] >= eff_result.offset[2]

\* C11: inside each tier's fade window alpha = floor(255 * t / T) clamped to
\* [0, 255] with T = 0.1 (low), 0.2 (medium), 0.3 (high); zoom and offset
\* follow their formulas; alpha and zoom are non-decreasing and the offset
\* non-increasing in t.
C11_EffectFormulas == C11_Alpha /\ C11_ZoomOffset /\ C11_Monotone

\* p < q for fractions with positive denominators
FracLess(p, q) == p[1] * q[2] < q[1] * p[2]

\* C12: frame i of a section of N frames, in frame_paths order, is rendered
\* at time i/(N-1) when N > 1: the times are evenly spaced, strictly
\* increasing, start at 0 and end at 1; the only frame of a section of one
\* frame is rendered at 0.
C12_TimePositions ==
    section_animation # None =>
        LET N  == Len(section_animation.frame_paths)
            tp == [i \in 1..Len(frame_files) |-> frame_files[i].time_pos]
        IN  /\ Len(frame_files) = N
            /\ \A i \in 1..N : frame_files[i].path = section_animation.frame_paths[i]
            /\ N = 1 => FracEq(tp[1], <<0, 1>>)
            /\ N > 1 =>
                  /\ \A i \in 1..N : FracEq(tp[i], <<i - 1, N - 1>>)
                  /\ FracEq(tp[1], <<0, 1>>)
                  /\ FracEq(tp[N], <<1, 1>>)
                  /\ \A i \in 1..(N - 1) :
                        /\ FracLess(tp[i], tp[i + 1])
                        /\ FracEq(<<tp[i + 1][1] * tp[i][2] - tp[i][1] * tp[i + 1][2],
                                    tp[i + 1][2] * tp[i][2]>>,
                                  <<tp[2][1] * tp[1][2] - tp[1][1] * tp[2][2],
                                    tp[2][2] * tp[1][2]>>)

\* a section of 6 frames (3.0 s at 2 fps) whose fourth frame was rendered at 3/5
C12_Witness ==
    /\ section_animation # None
    /\ Len(frame_files) = 6
    /\ FracEq(frame_files[4].time_pos, <<3, 5>>)
    /\ FracEq(frame_files[6].time_pos, <<1, 1>>)

\* C13: resolving a style name that is not in the catalog gives the
\* parameters of the "standard" preset and logs a warning, and nothing is
\* raised; resolving a catalog name gives that preset's parameters.
C13_StyleFallback ==
    (sec_args # None /\ pc # "new") =>
        LET name == config.DEFAULT_ANIMATION_STYLE
        IN  /\ animation_preset # None
            /\ "raised" \notin DOMAIN animation_preset
            /\ name \in DOMAIN ANIMATION_PRESETS =>
                  animation_preset = ANIMATION_PRESETS[name]
            /\ name \notin DOMAIN ANIMATION_PRESETS =>
                  /\ animation_preset = ANIMATION_PRESETS["standard"]
                  /\ animation_preset.complexity = "medium"
                  /\ animation_preset.transition_type = "fade"
                  /\ animation_preset.transition_duration = 10
                  /\ HasWarning("unknown_style", 0)

\* an engine constructed with the style "foo"
C13_Witness ==
    /\ pc = "constructed"
    /\ config.DEFAULT_ANIMATION_STYLE = "foo"
    /\ animation_preset = ANIMATION_PRESETS["standard"]
    /\ HasWarning("unknown_style", 0)

\* the frames are those of the fade algorithm: frame i of n blends the two
\* boundary images with factor i/(n-1) (1 when n = 1)
MadeByFade(fs) ==
    \A i \in 1..Len(fs) :
        /\ fs[i].kind = "blend"
        /\ FracEq(fs[i].alpha, IF Len(fs) > 1 THEN <<i - 1, Len(fs) - 1>> ELSE <<1, 1>>)

\* C14: a transition synthesized with a transition type other than fade or
\* slide has its frames made by the fade algorithm, a warning is logged and
\* nothing is raised.
C14_UnknownTransitionFallsBack ==
    (trans_result # None /\ Len(trans_result.frames) > 0
        /\ trans_args.style_params.transition_type \notin {"fade", "slide"})
    => /\ trans_result.raised = ""
       /\ \A k \in 1..Len(trans_result.frames) : MadeByFade(trans_result.frames[k])
       /\ HasWarning("unknown_transition_type", 0)

\* the part of C14 that the engine keeps: its transitions of another type are
\* made by the fade algorithm and nothing is raised
C14_EngineFallsBackToFade ==
    (trans_result # None /\ trans_result.op = "generate_slide_transitions"
        /\ trans_args.style_params.transition_type \notin {"fade", "slide"})
    => /\ trans_result.raised = ""
       /\ \A k \in 1..Len(trans_result.frames) : MadeByFade(trans_result.frames[k])

\* the part of C14 that the library keeps for a type it does not know
C14_LibraryWarns ==
    (trans_result # None /\ trans_result.op = "create_transition_frames"
        /\ trans_args.style_params.transition_type \notin {"fade", "slide", "zoom"})
    => /\ MadeByFade(trans_result.frames[1])
       /\ HasWarning("unknown_transition_type", 0)

\* C15: every clip resource created during encode_video (the clip of each
\* element, its audio, the concatenated clip) is closed by the time
\* encode_video returns or raises, whatever step failed.
C15_ClipsClosed ==
    enc_result # None =>
        \A i \in 1..Len(enc_result.resources) : enc_result.resources[i].closed

\* the part of C15 that holds: when no step of the backend fails and
\* encode_video returns, every clip resource it created is closed
C15_ClosedOnSuccess ==
    (enc_result # None /\ enc_args.fault.step = "none" /\ enc_result.raised = "")
        => \A i \in 1..Len(enc_result.resources) : enc_result.resources[i].closed

\* the composition is a dict whose element list is missing or empty
NoElements ==
    /\ enc_args.composition.type = "dict"
    /\ ("elements" \notin DOMAIN enc_args.composition
            \/ enc_args.composition.elements = <<>>)

\* the composition has elements and not one of their frame paths is on disk
NoFrameOnDisk ==
    /\ enc_args.composition.type = "dict"
    /\ "elements" \in DOMAIN enc_args.composition
    /\ enc_args.composition.elements # <<>>
    /\ \A i \in 1..Len(enc_args.composition.elements) :
          \A j \in 1..Len(enc_args.composition.elements[i].animation.frame_paths) :
              enc_args.composition.elements[i].animation.frame_paths[j]
                  \notin EncoderFiles.frames

\* C16: encode_video raises VideoEncodingError and writes no output file
\* when the composition has no elements or none of its elements has a frame
\* on disk; every error leaving encode_video is a VideoEncodingError.
C16_FatalFailures ==
    enc_result # None =>
        /\ (NoElements \/ NoFrameOnDisk) =>
              /\ enc_result.raised = "VideoEncodingError"
              /\ enc_result.returned = None
              /\ enc_result.output = "none"
        /\ enc_result.raised # "" => enc_result.raised = "VideoEncodingError"
        /\ enc_result.raised = "" => enc_result.returned = "out.mp4"

\* encode_video was refused a composition of two elements without a frame on
\* disk
C16_Witness ==
    /\ enc_result # None
    /\ NoFrameOnDisk
    /\ Len(enc_args.composition.elements) = 2
    /\ enc_result.raised = "VideoEncodingError"
    /\ enc_result.output = "none"

\* encode_video turned a failure of write_videofile into a VideoEncodingError
C16_WitnessWrapped ==
    /\ enc_result # None
    /\ enc_args.fault.step = "write_videofile"
    /\ enc_result.raised = "VideoEncodingError"

\* the slides or pages the section's visual is looked up in
SectionVisualList ==
    IF "slides" \in DOMAIN sec_args.visuals THEN sec_args.visuals.slides
    ELSE IF "pages" \in DOMAIN sec_args.visuals THEN sec_args.visuals.pages
    ELSE <<>>

\* the section has a visual reference, and its path
HasVisual == sec_args.section_idx < Len(SectionVisualList)

SectionPath == SectionVisualList[sec_args.section_idx + 1].path

\* the visual's file is on disk and its base image can be prepared
BasePrepared ==
    HasVisual /\ SectionPath \in DOMAIN disk /\ disk[SectionPath] # Undecodable

\* the visual's file is on disk and preparing its base image fails
BaseFails ==
    HasVisual /\ SectionPath \in DOMAIN disk /\ disk[SectionPath] = Undecodable

\* the number of frames of the section: max(1, round(d * f))
SectionFrames ==
    CHOOSE n \in 1..(1 + sec_args.audio_segment.duration * config.OUTPUT_FPS) :
        IsRoundFloor1(n, sec_args.audio_segment.duration * config.OUTPUT_FPS, 10)

\* C17: a section with audio and no usable visual (no slide or page of its
\* index, or a base image that cannot be prepared) is animated without error:
\* its record has max(1, round(d*f)) frames and every frame is a plain white
\* canvas of the configured resolution.
C17_BlankFramesWithoutVisual ==
    (section_animation # None /\ (~HasVisual \/ BaseFails)) =>
        /\ "raised" \notin DOMAIN section_animation
        /\ section_animation.frame_count = SectionFrames
        /\ Len(section_animation.frame_paths) = SectionFrames
        /\ Len(frame_files) = SectionFrames
        /\ \A i \in 1..Len(frame_files) :
              frame_files[i].image = [size |-> config.OUTPUT_RESOLUTION, kind |-> "white"]

\* a section of 6 frames whose slide cannot be decoded: the failure is
\* logged and the 6 frames are white
C17_Witness ==
    /\ section_animation # None
    /\ BaseFails
    /\ HasError("prepare_base", sec_args.section_idx)
    /\ Len(frame_files) = 6
    /\ \A i \in 1..6 : frame_files[i].image.kind = "white"

\* a section past the end of the slide list: 6 white frames
C17_WitnessNoSlide ==
    /\ section_animation # None
    /\ ~HasVisual
    /\ SectionVisualList # <<>>
    /\ Len(frame_files) = 6
    /\ \A i \in 1..6 : frame_files[i].image.kind = "white"

\* the fitted canvas of the section's visual, shown without any effect
UnmodifiedBase ==
    LET canvas == resize_image_to_fit(Decode(SectionPath, disk[SectionPath]),
                                      config.OUTPUT_RESOLUTION).canvas
    IN  [size   |-> config.OUTPUT_RESOLUTION,
         kind   |-> "image",
         base   |-> [pixels |-> canvas.pixels, tint |-> 0],
         effect |-> [alpha |-> 255, zoom |-> <<1, 1>>, offset |-> <<0, 0>>]]

\* C18: when processing one frame fails in a section whose base image was
\* prepared, the failure is logged, the section is not aborted, and that
\* frame's file holds the unmodified base frame: the fitted canvas without
\* effects.
C18_FrameFailureKeepsBase ==
    (section_animation # None /\ BasePrepared) =>
        /\ Len(frame_files) = SectionFrames
        /\ \A i \in sec_args.faults :
              i < SectionFrames =>
                  /\ HasError("processing_visual", i)
                  /\ frame_files[i + 1].image = UnmodifiedBase

\* the part of C18 that holds: the failure is logged and the section is not
\* aborted; the frame that failed is a plain white canvas
C18_FrameFailureLeavesWhite ==
    (section_animation # None /\ BasePrepared) =>
        /\ Len(frame_files) = SectionFrames
        /\ \A i \in sec_args.faults :
              i < SectionFrames =>
                  /\ HasError("processing_visual", i)
                  /\ frame_files[i + 1].image =
                        [size |-> config.OUTPUT_RESOLUTION, kind |-> "white"]

\* C19: while one section is animated, the fitted base canvas is fetched from
\* _get_fitted_canvas once for the section, not once per frame, for every
\* section that has a visual reference, also when the path it refers to is
\* missing or fitting fails.
C19_FittedOncePerSection ==
    (section_animation # None /\ HasVisual) => Len(Calls) = 1

\* the part of C19 that holds: one fetch for a section whose base image
\* could be prepared, whatever its number of frames
C19_FittedOnceWhenPrepared ==
    (section_animation # None /\ BasePrepared) => Len(Calls) = 1

\* the section indices 0..n-1 that have an audio record, in ascending order
SectionsWithAudio(n, audio) ==
    SelectSeq([i \in 1..n |-> i - 1], LAMBDA j : FindAudio(audio, j) # None)

\* the animated sections that have an audio record, in the order animated
AnimationsWithAudio ==
    SelectSeq(animation_data.sections,
              LAMBDA a : FindAudio(sync_audio.sections, a.section_idx) # None)

\* the sections' animations in the composition, in the order composed
ComposedSections ==
    LET kept == SelectSeq(Elements, LAMBDA e : ~IsTransition(e))
    IN  [k \in 1..Len(kept) |-> kept[k].animation]

\* C20 as stated: missing audio for a primary section is a structural error;
\* the operation that processes the section aborts and the error surfaces to
\* the caller, it is not swallowed with a fallback.
C20_MissingAudioIsFatal ==
    /\ (/\ animation_data # None
        /\ \E idx \in 0..(n_sections - 1) :
              FindAudio(audio_segments.sections, idx) = None)
          => "raised" \in DOMAIN animation_data
    /\ (/\ composition # None
        /\ \E i \in 1..Len(animation_data.sections) :
              FindAudio(sync_audio.sections,
                        animation_data.sections[i].section_idx) = None)
          => "raised" \in DOMAIN composition

\* C20 (amended): missing audio for a primary section is not fatal.  Both
\* create_animations and sync_audio_with_visuals leave that section out with
\* a logged warning, go on with the sections after it, and return their
\* result to the caller; nothing is raised.
C20_MissingAudioSkipsSection ==
    /\ animation_data # None =>
          /\ "raised" \notin DOMAIN animation_data
          /\ [i \in 1..Len(animation_data.sections) |->
                 animation_data.sections[i].section_idx]
                = SectionsWithAudio(n_sections, audio_segments.sections)
          /\ animation_data.metadata.section_count
                = Len(SectionsWithAudio(n_sections, audio_segments.sections))
          /\ \A idx \in 0..(n_sections - 1) :
                HasWarning("no_audio_segment", idx)
                    <=> FindAudio(audio_segments.sections, idx) = None
    /\ composition # None =>
          /\ "raised" \notin DOMAIN composition
          /\ ComposedSections = AnimationsWithAudio
          /\ composition.segment_count = Len(AnimationsWithAudio)
          /\ \A i \in 1..Len(animation_data.sections) :
                HasWarning("no_audio", i - 1)
                    <=> FindAudio(sync_audio.sections,
                                  animation_data.sections[i].section_idx) = None

\* three sections of which the second has no audio for the engine and the
\* third none for the compositor: sections 0 and 2 are animated, section 0
\* alone is composed
C20_Witness ==
    /\ composition # None
    /\ n_sections = 3
    /\ FindAudio(audio_segments.sections, 1) = None
    /\ Len(animation_data.sections) = 2
    /\ animation_data.sections[2].section_idx = 2
    /\ FindAudio(sync_audio.sections, 2) = None
    /\ Len(ComposedSections) = 1
    /\ ComposedSections[1].section_idx = 0

\* the image objects that Image.open made of the file at path
DecodesOf(path) ==
    Cardinality({i \in 1..Len(engine.heap) :
                    engine.heap[i].pixels = [kind |-> "file", path |-> path]})

\* the letterboxed canvases of size target made of the file at path: those
\* _resize_image_to_fit made and the copies handed out
CanvasesOf(key) ==
    Cardinality({i \in 1..Len(engine.heap) :
                    /\ engine.heap[i].pixels.kind = "letterbox"
                    /\ engine.heap[i].pixels.of.pixels.path = key[1]
                    /\ engine.heap[i].size = <<key[2], key[3]>>})

\* the successful _get_fitted_canvas calls for key, each of which made one copy
OkCallsOf(key) ==
    Cardinality({i \in 1..Len(history) : CallOk(i) /\ history[i].key = key})

\* the canvases of key that _resize_image_to_fit computed
FitsOf(key) == CanvasesOf(key) - OkCallsOf(key)

FitterKeys == {<<p, t[1], t[2]>> : p \in Paths, t \in FitterTargets}

\* C21: over any sequence of _get_fitted_canvas calls on one engine, each
\* source path is decoded from disk at most once and the letterbox of each
\* (path, target_size) is computed at most once: a key that was served has
\* exactly one decode and one computation behind it, however often it was
\* asked for.
C21_DecodeAndFitOnce ==
    /\ \A p \in Paths : DecodesOf(p) <= 1
    /\ \A key \in FitterKeys :
          /\ FitsOf(key) <= 1
          /\ OkCallsOf(key) > 0 => (FitsOf(key) = 1 /\ DecodesOf(key[1]) = 1)

\* one path was served at two target sizes, one of them twice: one decode,
\* one computation per size
C21_Witness ==
    \E p \in Paths : \E k1, k2 \in FitterKeys :
        /\ k1[1] = p /\ k2[1] = p /\ k1 # k2
        /\ OkCallsOf(k1) >= 2 /\ OkCallsOf(k2) >= 1
        /\ FitsOf(k1) = 1 /\ FitsOf(k2) = 1
        /\ DecodesOf(p) = 1

\* the target size of key has a zero or negative dimension
BadTarget(key) == key[2] <= 0 \/ key[3] <= 0

ClipAudioLength == <<ClipFiles.audio[enc_args.element.audio.path], 1>>

\* a clip was built and an audio clip is attached to it
ClipHasAudio ==
    /\ enc_result # None
    /\ enc_result.clip # None
    /\ enc_result.clip.audio # None

\* C23: for every clip the encoder builds from an element with a loadable
\* audio file, the attached audio lasts as long as the clip: audio longer than
\* the clip is trimmed to [0, duration], audio shorter than the clip is
\* extended to the clip's duration.
C23_AudioMatchesClip ==
    /\ (/\ enc_result # None
        /\ enc_result.clip # None
        /\ enc_args.element.audio # None
        /\ enc_args.element.audio.path \in DOMAIN ClipFiles.audio
        /\ enc_args.fault.step # "AudioFileClip")
          => enc_result.clip.audio # None
    /\ ClipHasAudio =>
          /\ FracEq(enc_result.clip.audio.duration, enc_result.clip.duration)
          /\ FracLess(enc_result.clip.duration, ClipAudioLength)
                => enc_result.clip.audio.fitted = "subclip"
          /\ FracLess(ClipAudioLength, enc_result.clip.duration)
                => enc_result.clip.audio.fitted = "set_duration"

\* a narration of 0.3 s attached to a clip of 1.0 s lasts 1.0 s
C23_Witness ==
    /\ ClipHasAudio
    /\ enc_args.element.audio.path = "s.wav"
    /\ enc_args.element.duration = 10
    /\ enc_result.clip.audio.fitted = "set_duration"
    /\ FracEq(enc_result.clip.audio.duration, <<10, 1>>)

\* a narration of 0.7 s attached to a clip of two frames at 4 fps (0.5 s) is
\* trimmed to 0.5 s
C23_WitnessTrim ==
    /\ ClipHasAudio
    /\ enc_args.element.audio.path = "a.wav"
    /\ enc_args.element.duration = 0
    /\ enc_args.fps = 4
    /\ Len(enc_result.clip.frames) = 2
    /\ enc_result.clip.audio.fitted = "subclip"
    /\ FracEq(enc_result.clip.audio.duration, <<5, 1>>)

\* the records of one create_animations run, sections then transitions
AnimationRecords == animation_data.sections \o animation_data.transitions

\* the frame file names of a record inside its frames_dir
FrameNamesOf(rec) == {rec.frame_paths[i] : i \in 1..Len(rec.frame_paths)}

\* no file os.path.join(frames_dir, name) belongs to both records
NoSharedFrameFile(r1, r2) ==
    r1.frames_dir # r2.frames_dir \/ FrameNamesOf(r1) \cap FrameNamesOf(r2) = {}

\* C24: within one create_animations run the frame directories of the
\* sections and transitions are pairwise distinct and the frame paths of one
\* record are pairwise distinct, so no frame file is written by two records
\* or twice by one.
C24_FrameDirsDisjoint ==
    animation_data # None =>
        /\ \A i, j \in 1..Len(AnimationRecords) :
              i < j => AnimationRecords[i].frames_dir # AnimationRecords[j].frames_dir
        /\ \A i \in 1..Len(AnimationRecords) :
              /\ Cardinality(FrameNamesOf(AnimationRecords[i]))
                    = Len(AnimationRecords[i].frame_paths)
              /\ Len(AnimationRecords[i].frame_paths) = AnimationRecords[i].frame_count
        /\ \A i, j \in 1..Len(AnimationRecords) :
              i < j => NoSharedFrameFile(AnimationRecords[i], AnimationRecords[j])

\* a run of three sections, the second without audio: two section records
\* and the transition between them, each of two frames or more
C24_Witness ==
    /\ animation_data # None
    /\ n_sections = 3
    /\ Len(animation_data.sections) = 2
    /\ Len(animation_data.transitions) = 1
    /\ \A i \in 1..Len(AnimationRecords) : AnimationRecords[i].frame_count >= 2

\* the position of a step in the steps main() entered, 0 when it was not
RanAt(stage) ==
    IF \E i \in 1..Len(drv_ran) : drv_ran[i].stage = stage
    THEN CHOOSE i \in 1..Len(drv_ran) : drv_ran[i].stage = stage
    ELSE 0

Returned(stage) == RanAt(stage) > 0 /\ drv_ran[RanAt(stage)].raised = ""

\* C25: in main() the stages run strictly in order (audio, animation,
\* composition, encoding); the temporary files are cleaned up only after
\* encode_video has returned; when a stage raises no later stage runs, nothing
\* is cleaned up and the exit code is 1.
C25_StagesInOrder ==
    /\ \A i, j \in 1..Len(drv_ran) : (i # j) => drv_ran[i].stage # drv_ran[j].stage
    /\ RanAt("create_animations") > 0 =>
          Returned("process_audio") /\ RanAt("process_audio") < RanAt("create_animations")
    /\ RanAt("sync_audio_with_visuals") > 0 =>
          /\ Returned("create_animations")
          /\ RanAt("create_animations") < RanAt("sync_audio_with_visuals")
    /\ RanAt("encode_video") > 0 =>
          /\ Returned("sync_audio_with_visuals")
          /\ RanAt("sync_audio_with_visuals") < RanAt("encode_video")
    /\ RanAt("clean_temp_files") > 0 =>
          /\ Returned("encode_video")
          /\ RanAt("encode_video") < RanAt("clean_temp_files")
    /\ \A i \in 1..Len(drv_ran) :
          drv_ran[i].raised # "" =>
              /\ i = Len(drv_ran)
              /\ RanAt("clean_temp_files") \in {0, i}
              /\ drv_pc = "returned"
              /\ exit_code = 1
    /\ (drv_pc = "returned" /\ exit_code = 0) =>
          \A i \in 1..Len(StageOrder) : Returned(StageOrder[i])

\* create_animations raised after process_audio had returned: main() has
\* returned 1, and neither the compositor, the encoder nor the cleanup ran
C25_Witness ==
    /\ drv_pc = "returned"
    /\ exit_code = 1
    /\ Returned("process_audio")
    /\ RanAt("create_animations") = Len(drv_ran)
    /\ drv_ran[Len(drv_ran)].raised # ""
    /\ RanAt("sync_audio_with_visuals") = 0
    /\ RanAt("encode_video") = 0
    /\ RanAt("clean_temp_files") = 0

\* every stage returned, the cleanup last: main() returned 0
C25_WitnessSuccess ==
    /\ drv_pc = "returned"
    /\ exit_code = 0
    /\ Returned("encode_video")
    /\ Returned("clean_temp_files")
    /\ RanAt("clean_temp_files") = Len(drv_ran)

\* the section elements of the composition
SectionElements == SelectSeq(Elements, LAMBDA e : ~IsTransition(e))

\* C26: every section element of the final composition carries the
\* section_idx of the animation record and of the audio record it pairs, for
\* any input, also when an earlier section was skipped for lack of audio.
C26_ElementKeepsSectionIdx ==
    composition # None =>
        \A k \in 1..Len(SectionElements) :
            /\ SectionElements[k].section_idx = SectionElements[k].animation.section_idx
            /\ SectionElements[k].section_idx = SectionElements[k].audio.section_idx

\* the part of C26 that holds: the animation and the audio record of an
\* element have the same section_idx, and the element's own is its position
\* among the animated sections
C26_PairedRecordsAgree ==
    composition # None =>
        \A k \in 1..Len(SectionElements) :
            SectionElements[k].animation.section_idx = SectionElements[k].audio.section_idx

\* the fitted canvas of the section's visual
SectionCanvas ==
    resize_image_to_fit(Decode(SectionPath, disk[SectionPath]),
                        config.OUTPUT_RESOLUTION).canvas

\* the frame at time_pos rendered with the effects of style_params
RenderedWith(style_params, time_pos) ==
    Flatten(SectionCanvas, apply_animation_effects(BaseFrame, time_pos, style_params))

\* C27: the complexity tier a run's frames are rendered with is the tier of
\* the preset resolved from the configured style name, for every
\* configuration including the default one (ANIMATION_COMPLEXITY "medium").
C27_PresetTierRenders ==
    (section_animation # None /\ BasePrepared) =>
        \A i \in 1..Len(frame_files) :
            (i - 1) \notin sec_args.faults =>
                frame_files[i].image
                    = RenderedWith(get_animation_preset(config.DEFAULT_ANIMATION_STYLE),
                                   frame_files[i].time_pos)

\* the part of C27 that holds: the frames are rendered with the preset's tier
\* when the configuration has no ANIMATION_COMPLEXITY of its own
C27_PresetTierWithoutOverride ==
    (section_animation # None /\ BasePrepared /\ config.ANIMATION_COMPLEXITY = "") =>
        \A i \in 1..Len(frame_files) :
            (i - 1) \notin sec_args.faults =>
                frame_files[i].image
                    = RenderedWith(get_animation_preset(config.DEFAULT_ANIMATION_STYLE),
                                   frame_files[i].time_pos)

\* C28: create_animations produces max(0, k-1) transitions, k being the
\* number of sections animated (those with an audio record); the i-th
\* transition links the i-th and the (i+1)-th animated section, and every
\* transition lasts the preset's transition_duration whatever the narration
\* durations.
C28_TransitionsBetweenAnimated ==
    animation_data # None =>
        LET k == Len(SectionsWithAudio(n_sections, audio_segments.sections))
        IN  /\ Len(animation_data.sections) = k
            /\ Len(animation_data.transitions) = Max(0, k - 1)
            /\ \A i \in 1..Len(animation_data.transitions) :
                  /\ animation_data.transitions[i].from_section_idx
                        = animation_data.sections[i].section_idx
                  /\ animation_data.transitions[i].to_section_idx
                        = animation_data.sections[i + 1].section_idx
                  /\ animation_data.transitions[i].duration
                        = get_animation_preset(config.DEFAULT_ANIMATION_STYLE)
                              .transition_duration

\* three sections of which the second has no audio and the others narrations
\* of different lengths: one transition, from section 0 to section 2, of the
\* preset's duration
C28_Witness ==
    /\ animation_data # None
    /\ n_sections = 3
    /\ FindAudio(audio_segments.sections, 1) = None
    /\ Len(animation_data.sections) = 2
    /\ animation_data.sections[1].duration # animation_data.sections[2].duration
    /\ Len(animation_data.transitions) = 1
    /\ animation_data.transitions[1].from_section_idx = 0
    /\ animation_data.transitions[1].to_section_idx = 2
    /\ animation_data.transitions[1].duration = 10

\* what get_animation_preset(style_name) would return now, read through
PresetNow(style_name) == DeepValue(preset_copy(preset_catalog, style_name), scheme_heap)

\* what it returned before anything was handed out
PresetLoaded(style_name) == DeepValue(preset_copy(LoadedPresets, style_name), LoadedSchemes)

\* C29: the preset catalog is immutable from the caller's side: after any
\* get_animation_preset / apply_animation_style calls and any mutation of the
\* dictionaries returned, their nested color_scheme included, a later
\* get_animation_preset of the same name returns the original catalog values.
C29_CatalogImmutable ==
    preset_catalog # None =>
        \A style_name \in StyleNames \cup AskedStyles :
            PresetNow(style_name) = PresetLoaded(style_name)

\* the part of C29 that holds: the keys of the catalog's own dictionaries
\* keep their values, whatever is assigned to the keys of the copies
C29_TopLevelKeysKept ==
    preset_catalog # None => preset_catalog = LoadedPresets

\* the clip built from element k has an audio clip attached
ClipWithAudio(k) ==
    /\ enc_result.clips[k] # None
    /\ enc_result.clips[k].audio # None

\* C30: in a composition the assembler produced, every element lasts at
\* least as long as its audio record says, so when each audio file is as long
\* as its record says the encoder trims no narration, also when the recorded
\* duration is 0.
C30_NarrationNeverTrimmed ==
    /\ composition # None =>
          \A k \in 1..Len(Elements) :
              Elements[k].audio # None => Elements[k].duration >= Elements[k].audio.duration
    /\ (pc = "encoded" /\ enc_result # None) =>
          \A k \in 1..Len(enc_result.clips) :
              ClipWithAudio(k) => enc_result.clips[k].audio.fitted # "subclip"

\* a section animated with a narration of 0.5 s and composed with one of
\* 0.7 s: the element lasts 0.7 s and the audio is attached as it is; and a
\* section with a recorded duration of 0 whose audio is extended
C30_Witness ==
    /\ pc = "encoded"
    /\ enc_result # None
    /\ \E k \in 1..Len(enc_result.clips) :
          /\ ClipWithAudio(k)
          /\ Elements[k].animation.duration = 5
          /\ Elements[k].audio.duration = 7
          /\ enc_result.clips[k].audio.fitted = "as_is"
    /\ \E k \in 1..Len(enc_result.clips) :
          /\ ClipWithAudio(k)
          /\ Elements[k].duration = 0
          /\ Elements[k].audio.duration = 0
          /\ enc_result.clips[k].audio.fitted = "set_duration"


====
